---- MODULE Spec2Model ----
(***************************************************************************)
(* A model of fantasy_football_tracker.py: roster loading, ingestion of    *)
(* the per-gameweek scores, aggregation of the manager points, the         *)
(* standings comparison and the snapshot store, as main() runs them.       *)
(*                                                                         *)
(* Python dicts whose iteration order matters (manager_squads,             *)
(* manager_points, the standings) are sequences of entries in insertion    *)
(* order; dicts that are only looked up (a manager's phases, a gameweek's  *)
(* points) are functions.                                                  *)
(***************************************************************************)
EXTENDS Integers, Sequences, FiniteSets, TLC

(***************************************************************************)
(* Bounds of the model.                                                    *)
(***************************************************************************)
\* points a player can score in one gameweek: 1..MaxPoints
MaxPoints == 1
\* the last gameweek the API may report as current
MaxGameweek == 12
\* the longest squad file of the runs that only load the rosters
MaxRows == 4
Players == {1, 2}

(***************************************************************************)
(* The state of a run of main().                                           *)
(***************************************************************************)
VARIABLES
    squads_file,          \* Squads.csv
    standings_file,       \* STANDINGS_FILE
    test_mode,            \* "--test-movement" in sys.argv
    POINT_CORRECTIONS,    \* the (player_id, phase, adjustment) list
    manager_squads,       \* global: manager -> phase -> player ids
    gameweek_data,        \* global: gameweek -> player id -> points
    current_gameweek,     \* global
    previous_standings,   \* global: the baseline of the league table
    result,               \* what calculate_manager_points returned
    current_standings,    \* main's current_standings
    league_table,         \* the rows generate_league_table rendered
    fetch_gw,             \* the loop variable gw of the fetch loop
    pc,                   \* where main() is
    env,                  \* what the API answers and how file writes end in this run
    cache,                \* the files of CACHE_DIR that get_cached_data reads
    player_data,          \* global: the ids of the player directory
    io,                   \* the requests answered and the files written so far
    messages,             \* the diagnostics printed so far
    exception             \* the unhandled exception that ended the run, if any

vars == <<squads_file, standings_file, test_mode, POINT_CORRECTIONS, manager_squads,
          gameweek_data, current_gameweek, previous_standings, result,
          current_standings, league_table, fetch_gw, pc,
          env, cache, player_data, io, messages, exception>>

(***************************************************************************)
(* Program constants.                                                      *)
(***************************************************************************)
\* PHASES: phase -> range(start, stop)
PHASES ==
    (1 :> [start |-> 1, stop |-> 12]) @@
    (2 :> [start |-> 12, stop |-> 21]) @@
    (3 :> [start |-> 21, stop |-> 25]) @@
    (4 :> [start |-> 25, stop |-> 30]) @@
    (5 :> [start |-> 30, stop |-> 39])

\* gw in PHASES[phase]
InPhase(gw, phase) ==
    PHASES[phase].start <= gw /\ gw < PHASES[phase].stop

EmptyDict == <<>>

(***************************************************************************)
(* Ordered dicts: sequences of [key, value] entries in insertion order.    *)
(***************************************************************************)
Keys(d) == {d[i].key : i \in 1..Len(d)}

HasKey(d, k) == \E i \in 1..Len(d) : d[i].key = k

Get(d, k) == d[CHOOSE i \in 1..Len(d) : d[i].key = k].value

\* d[k] = v: an existing key keeps its place, a new key is appended
Put(d, k, v) ==
    IF HasKey(d, k)
    THEN [i \in 1..Len(d) |-> IF d[i].key = k THEN [key |-> k, value |-> v] ELSE d[i]]
    ELSE Append(d, [key |-> k, value |-> v])

(***************************************************************************)
(* Roster loading: parse_csv_squads_file.  A file is a sequence of rows:   *)
(*   [kind |-> "empty"]                                                    *)
(*   [kind |-> "phase", valid, phase]   one cell containing "phase";       *)
(*                                      valid: the number after it parses  *)
(*   [kind |-> "manager", name, ids, valid]   two or more cells; valid:    *)
(*                                      every player id parses as an int   *)
(***************************************************************************)
PhaseRow(k) == [kind |-> "phase", valid |-> TRUE, phase |-> k, name |-> "", ids |-> <<>>]
BadPhaseRow == [kind |-> "phase", valid |-> FALSE, phase |-> 0, name |-> "", ids |-> <<>>]
ManagerRow(n, ids) == [kind |-> "manager", valid |-> TRUE, phase |-> 0, name |-> n, ids |-> ids]
BadManagerRow(n) == [kind |-> "manager", valid |-> FALSE, phase |-> 0, name |-> n, ids |-> <<>>]
EmptyRow == [kind |-> "empty", valid |-> TRUE, phase |-> 0, name |-> "", ids |-> <<>>]

NoPhase == 0

\* faulty variant: an invalid phase header leaves no phase current
ParseRowResetting(squads, current_phase, row) ==
    IF row.kind = "empty"
    THEN <<squads, current_phase>>
    ELSE IF row.kind = "phase"
    THEN IF row.valid THEN <<squads, row.phase>> ELSE <<squads, NoPhase>>
    ELSE IF current_phase # NoPhase /\ row.valid /\ Len(row.ids) > 0
    THEN LET phases == IF HasKey(squads, row.name) THEN Get(squads, row.name) ELSE EmptyDict
         IN  <<Put(squads, row.name, (current_phase :> row.ids) @@ phases), current_phase>>
    ELSE <<squads, current_phase>>

\* one iteration of the row loop: <<squads, current_phase>> after the row
ParseRow(squads, current_phase, row) ==
    IF row.kind = "empty"
    THEN <<squads, current_phase>>
    ELSE IF row.kind = "phase"
    THEN IF row.valid THEN <<squads, row.phase>> ELSE <<squads, current_phase>>
    ELSE IF current_phase # NoPhase /\ row.valid /\ Len(row.ids) > 0
    THEN LET phases == IF HasKey(squads, row.name) THEN Get(squads, row.name) ELSE EmptyDict
         IN  <<Put(squads, row.name, (current_phase :> row.ids) @@ phases), current_phase>>
    ELSE <<squads, current_phase>>

RECURSIVE ParseRows(_, _, _, _)
ParseRows(rows, i, squads, current_phase) ==
    IF i > Len(rows)
    THEN squads
    ELSE LET st == ParseRow(squads, current_phase, rows[i])
         IN  ParseRows(rows, i + 1, st[1], st[2])

parse_csv_squads_file(rows) == ParseRows(rows, 1, EmptyDict, NoPhase)

MsgInvalidPhaseRow == "Warning: Invalid phase row"
MsgInvalidPlayerIds == "Warning: Invalid player IDs for manager"

\* the warnings the row loop of parse_csv_squads_file prints: a manager row
\* is looked at only once current_phase is set
RECURSIVE RowWarnings(_, _, _)
RowWarnings(rows, i, current_phase) ==
    IF i > Len(rows)
    THEN {}
    ELSE LET row == rows[i]
             st == ParseRow(EmptyDict, current_phase, row)
             warning ==
                 IF row.kind = "phase" /\ ~row.valid THEN {MsgInvalidPhaseRow}
                 ELSE IF row.kind = "manager" /\ current_phase # NoPhase /\ ~row.valid
                 THEN {MsgInvalidPlayerIds}
                 ELSE {}
         IN  warning \cup RowWarnings(rows, i + 1, st[2])

(***************************************************************************)
(* Roster loading, legacy: parse_squads_file reads Squads.txt line by      *)
(* line.  A line is a row of the same kinds: a phase header is valid when  *)
(* it matches 'Phase (\d+)', and a header that does not match is not a     *)
(* manager line either (it has no colon), so it is passed over.            *)
(***************************************************************************)
\* one iteration of the line loop: <<squads, current_phase>> after the line;
\* a manager line whose ids all parse is stored even when it lists no id
ParseLine(squads, current_phase, row) ==
    IF row.kind = "empty"
    THEN <<squads, current_phase>>
    ELSE IF row.kind = "phase"
    THEN IF row.valid THEN <<squads, row.phase>> ELSE <<squads, current_phase>>
    ELSE IF current_phase # NoPhase /\ row.valid
    THEN LET phases == IF HasKey(squads, row.name) THEN Get(squads, row.name) ELSE EmptyDict
         IN  <<Put(squads, row.name, (current_phase :> row.ids) @@ phases), current_phase>>
    ELSE <<squads, current_phase>>

RECURSIVE ParseLines(_, _, _, _)
ParseLines(rows, i, squads, current_phase) ==
    IF i > Len(rows)
    THEN squads
    ELSE LET st == ParseLine(squads, current_phase, rows[i])
         IN  ParseLines(rows, i + 1, st[1], st[2])

parse_squads_file(rows) == ParseLines(rows, 1, EmptyDict, NoPhase)

\* the warnings the line loop of parse_squads_file prints: only the
\* ValueError of a manager line is reported
RECURSIVE LineWarnings(_, _, _)
LineWarnings(rows, i, current_phase) ==
    IF i > Len(rows)
    THEN {}
    ELSE LET row == rows[i]
             st == ParseLine(EmptyDict, current_phase, row)
             warning ==
                 IF row.kind = "manager" /\ current_phase # NoPhase /\ ~row.valid
                 THEN {MsgInvalidPlayerIds}
                 ELSE {}
         IN  warning \cup LineWarnings(rows, i + 1, st[2])

\* main: Squads.csv goes to parse_csv_squads_file, Squads.txt to
\* parse_squads_file
ParseSquads(file) ==
    IF file.filename = "Squads.csv"
    THEN parse_csv_squads_file(file.rows)
    ELSE parse_squads_file(file.rows)

SquadWarnings(file) ==
    IF file.filename = "Squads.csv"
    THEN RowWarnings(file.rows, 1, NoPhase)
    ELSE LineWarnings(file.rows, 1, NoPhase)

(***************************************************************************)
(* Score Aggregator: calculate_manager_points.                             *)
(***************************************************************************)
Contains(seq, x) == \E i \in 1..Len(seq) : seq[i] = x

RECURSIVE SumValues(_)
\* sum(d.values())
SumValues(f) ==
    IF DOMAIN f = {}
    THEN 0
    ELSE LET k == CHOOSE k \in DOMAIN f : TRUE
         IN  f[k] + SumValues([j \in DOMAIN f \ {k} |-> f[j]])

\* what one rostered player adds to gw_points: a player with no entry adds nothing
PlayerPoints(player_id, points) ==
    IF player_id \in DOMAIN points THEN points[player_id] ELSE 0

RECURSIVE GwPoints(_, _, _)
\* the loop over player_ids: gw_points of a roster in one gameweek's points
GwPoints(player_ids, i, points) ==
    IF i > Len(player_ids)
    THEN 0
    ELSE PlayerPoints(player_ids[i], points) + GwPoints(player_ids, i + 1, points)

RECURSIVE RawPhasePointsShort(_, _, _, _)
\* faulty variant: the last gameweek of the range is left out
RawPhasePointsShort(player_ids, gw, stop, gwd) ==
    IF gw >= stop - 1
    THEN 0
    ELSE (IF gw \in DOMAIN gwd THEN GwPoints(player_ids, 1, gwd[gw]) ELSE 0)
         + RawPhasePointsShort(player_ids, gw + 1, stop, gwd)

RECURSIVE RawPhasePoints(_, _, _, _)
\* the loop over range(gw, stop): gameweeks without data are skipped
RawPhasePoints(player_ids, gw, stop, gwd) ==
    IF gw >= stop
    THEN 0
    ELSE (IF gw \in DOMAIN gwd THEN GwPoints(player_ids, 1, gwd[gw]) ELSE 0)
         + RawPhasePoints(player_ids, gw + 1, stop, gwd)

\* faulty variant: a phase gets its entry when its first gameweek with data is
\* added, so a phase without data has none
RawPhasesWithData(phases, gwd) ==
    [k \in {k \in DOMAIN phases :
               \E g \in DOMAIN gwd : PHASES[k].start <= g /\ g < PHASES[k].stop} |->
        RawPhasePoints(phases[k], PHASES[k].start, PHASES[k].stop, gwd)]

\* phase_points[manager] before the corrections
RawPhases(phases, gwd) ==
    [k \in DOMAIN phases |->
        RawPhasePoints(phases[k], PHASES[k].start, PHASES[k].stop, gwd)]

\* phase_points before the corrections, in manager_squads order
RawPhasePointsAll(squads, gwd) ==
    [i \in 1..Len(squads) |->
        [key |-> squads[i].key, value |-> RawPhases(squads[i].value, gwd)]]

\* the condition under which a correction is applied to a manager
CorrectionApplies(c, phases) ==
    c[2] \in DOMAIN phases /\ Contains(phases[c[2]], c[1])

\* faulty variant: the entry is applied to the first manager it matches only
ApplyCorrectionOnce(pp, squads, c) ==
    [i \in 1..Len(pp) |->
        IF /\ CorrectionApplies(c, squads[i].value)
           /\ \A j \in 1..(i - 1) : ~CorrectionApplies(c, squads[j].value)
        THEN [key |-> pp[i].key,
              value |-> [pp[i].value EXCEPT ![c[2]] = @ + c[3]]]
        ELSE pp[i]]

\* one (player_id, phase, adjustment) entry, applied to every manager it matches
ApplyCorrection(pp, squads, c) ==
    [i \in 1..Len(pp) |->
        IF CorrectionApplies(c, squads[i].value)
        THEN [key |-> pp[i].key,
              value |-> [pp[i].value EXCEPT ![c[2]] = @ + c[3]]]
        ELSE pp[i]]

RECURSIVE ApplyCorrections(_, _, _, _)
\* the loop over POINT_CORRECTIONS
ApplyCorrections(pp, squads, corrections, i) ==
    IF i > Len(corrections)
    THEN pp
    ELSE ApplyCorrections(ApplyCorrection(pp, squads, corrections[i]),
                          squads, corrections, i + 1)

\* manager_points[manager]: 'total' and the 'phase_<k>' entries
ManagerEntry(phases) ==
    [total |-> SumValues(phases), phase |-> phases]

\* gw_points of a manager in the current gameweek (0 when no phase of the
\* manager's roster contains it or it has no data)
CurrentGwPoints(phases, gwd, cgw) ==
    IF cgw \in DOMAIN gwd /\ \E k \in DOMAIN phases : InPhase(cgw, k)
    THEN GwPoints(phases[CHOOSE k \in DOMAIN phases : InPhase(cgw, k)], 1, gwd[cgw])
    ELSE 0

NoManager == "None"

RECURSIVE Highest(_, _, _, _, _)
\* highest_gameweek_manager / highest_gameweek_points after managers i..
Highest(squads, i, gwd, cgw, best) ==
    IF i > Len(squads)
    THEN best
    ELSE LET p == CurrentGwPoints(squads[i].value, gwd, cgw)
         IN  Highest(squads, i + 1, gwd, cgw,
                     IF p > best.points
                     THEN [manager |-> squads[i].key, points |-> p]
                     ELSE best)

\* every phase of every roster is a key of PHASES (PHASES[phase_num] raises
\* KeyError otherwise)
PhasesConfigured(squads) ==
    \A i \in 1..Len(squads) : DOMAIN squads[i].value \subseteq DOMAIN PHASES

\* "Player ... (ID: ...) has no points for gameweek ..."
MsgNoPoints(player_id, gw) ==
    "Player (ID: " \o ToString(player_id) \o ") has no points for gameweek " \o ToString(gw)

\* faulty variant: a missing entry is reported for every gameweek
ReportedAlways(gw, cgw) == TRUE

\* 'if gw == current_gameweek': the missing entries that are reported
Reported(gw, cgw) == gw = cgw

\* what the loop over player_ids prints in one gameweek with data
MissingInGameweek(player_ids, gw, gwd, cgw) ==
    {MsgNoPoints(player_ids[n], gw) :
        n \in {n \in 1..Len(player_ids) :
                  player_ids[n] \notin DOMAIN gwd[gw] /\ Reported(gw, cgw)}}

MissingInPhase(player_ids, k, gwd, cgw) ==
    UNION {MissingInGameweek(player_ids, gw, gwd, cgw) :
              gw \in {gw \in DOMAIN gwd : InPhase(gw, k)}}

MissingOfManager(phases, gwd, cgw) ==
    UNION {MissingInPhase(phases[k], k, gwd, cgw) : k \in DOMAIN PHASES \cap DOMAIN phases}

\* what calculate_manager_points prints about rostered players without an
\* entry in the data of a gameweek of their phase
MissingPoints(squads, gwd, cgw) ==
    UNION {MissingOfManager(squads[i].value, gwd, cgw) : i \in 1..Len(squads)}

\* the managers calculate_manager_points goes through before PHASES[phase_num]
\* raises for a roster of a phase that PHASES does not have (the rosters the
\* failing manager has for earlier phases are left out)
ManagersBeforeKeyError(squads) ==
    SubSeq(squads, 1,
           CHOOSE n \in 0..Len(squads) :
               /\ \A i \in 1..n : DOMAIN squads[i].value \subseteq DOMAIN PHASES
               /\ n < Len(squads) => ~(DOMAIN squads[n + 1].value \subseteq DOMAIN PHASES))

EmptyResult ==
    [manager_points |-> EmptyDict, phase_points |-> EmptyDict,
     highest |-> [manager |-> NoManager, points |-> 0]]

\* faulty variant: the totals are summed before the corrections are applied
calculate_manager_points_early_total(squads, gwd, cgw, corrections) ==
    IF squads = EmptyDict \/ DOMAIN gwd = {}
    THEN EmptyResult
    ELSE LET raw == RawPhasePointsAll(squads, gwd)
             pp == ApplyCorrections(raw, squads, corrections, 1)
         IN  [manager_points |->
                 [i \in 1..Len(pp) |->
                     [key |-> pp[i].key,
                      value |-> [total |-> SumValues(raw[i].value),
                                 phase |-> pp[i].value]]],
              phase_points |-> pp,
              highest |-> Highest(squads, 1, gwd, cgw,
                                  [manager |-> NoManager, points |-> 0])]

\* faulty variant: phase_points is not reset between two calls, the second call adds
\* to what the first call left
calculate_manager_points_accumulating(squads, gwd, cgw, corrections) ==
    IF squads = EmptyDict \/ DOMAIN gwd = {}
    THEN EmptyResult
    ELSE LET fresh == ApplyCorrections(RawPhasePointsAll(squads, gwd), squads, corrections, 1)
             pp == [i \in 1..Len(fresh) |->
                      [key |-> fresh[i].key,
                       value |-> [k \in DOMAIN fresh[i].value |->
                                    fresh[i].value[k]
                                    + (IF HasKey(result.phase_points, fresh[i].key)
                                       THEN Get(result.phase_points, fresh[i].key)[k]
                                       ELSE 0)]]]
         IN  [manager_points |->
                 [i \in 1..Len(pp) |->
                     [key |-> pp[i].key, value |-> ManagerEntry(pp[i].value)]],
              phase_points |-> pp,
              highest |-> Highest(squads, 1, gwd, cgw,
                                  [manager |-> NoManager, points |-> 0])]

calculate_manager_points(squads, gwd, cgw, corrections) ==
    IF squads = EmptyDict \/ DOMAIN gwd = {}
    THEN EmptyResult
    ELSE LET pp == ApplyCorrections(RawPhasePointsAll(squads, gwd), squads, corrections, 1)
         IN  [manager_points |->
                 [i \in 1..Len(pp) |->
                     [key |-> pp[i].key, value |-> ManagerEntry(pp[i].value)]],
              phase_points |-> pp,
              highest |-> Highest(squads, 1, gwd, cgw,
                                  [manager |-> NoManager, points |-> 0])]

(***************************************************************************)
(* calculate_points_up_to_gameweek.                                        *)
(***************************************************************************)
Min(a, b) == IF a < b THEN a ELSE b

RECURSIVE PhaseCorrections(_, _, _, _)
\* the corrections loop of one phase: phase == phase_num and player_id in player_ids
PhaseCorrections(corrections, i, phase_num, player_ids) ==
    IF i > Len(corrections)
    THEN 0
    ELSE (IF corrections[i][2] = phase_num /\ Contains(player_ids, corrections[i][1])
          THEN corrections[i][3] ELSE 0)
         + PhaseCorrections(corrections, i + 1, phase_num, player_ids)

\* faulty variant: the corrections of a phase count from its first gameweek on
UpToPhasePointsCorrectedLate(phase_num, player_ids, gameweek, gwd, corrections) ==
    RawPhasePoints(player_ids, PHASES[phase_num].start,
                   Min(PHASES[phase_num].stop, gameweek + 1), gwd)
    + (IF gameweek >= PHASES[phase_num].start
       THEN PhaseCorrections(corrections, 1, phase_num, player_ids)
       ELSE 0)

\* faulty variant: the gameweeks of the phase that are < gameweek
UpToPhasePointsBefore(phase_num, player_ids, gameweek, gwd, corrections) ==
    RawPhasePoints(player_ids, PHASES[phase_num].start,
                   Min(PHASES[phase_num].stop, gameweek), gwd)
    + PhaseCorrections(corrections, 1, phase_num, player_ids)

\* phase_points of one phase: the gameweeks of the phase that are <= gameweek
UpToPhasePoints(phase_num, player_ids, gameweek, gwd, corrections) ==
    RawPhasePoints(player_ids, PHASES[phase_num].start,
                   Min(PHASES[phase_num].stop, gameweek + 1), gwd)
    + PhaseCorrections(corrections, 1, phase_num, player_ids)

RECURSIVE Accumulate(_, _)
\* manager_points[manager]['total'] += phase_points, phase by phase
Accumulate(f, total) ==
    IF DOMAIN f = {}
    THEN total
    ELSE LET k == CHOOSE k \in DOMAIN f : TRUE
         IN  Accumulate([j \in DOMAIN f \ {k} |-> f[j]], total + f[k])

UpToEntry(phases, gameweek, gwd, corrections) ==
    LET pts == [k \in DOMAIN phases |->
                   UpToPhasePoints(k, phases[k], gameweek, gwd, corrections)]
    IN  [total |-> Accumulate(pts, 0), phase |-> pts]

\* faulty variant: a manager is in the result only when one of its phases
\* has started by the gameweek
calculate_points_up_to_gameweek_started(gameweek, squads, gwd, corrections) ==
    LET started == SelectSeq(squads, LAMBDA e :
                       \E k \in DOMAIN e.value : PHASES[k].start <= gameweek)
    IN  [i \in 1..Len(started) |->
            [key |-> started[i].key,
             value |-> UpToEntry(started[i].value, gameweek, gwd, corrections)]]

calculate_points_up_to_gameweek(gameweek, squads, gwd, corrections) ==
    [i \in 1..Len(squads) |->
        [key |-> squads[i].key,
         value |-> UpToEntry(squads[i].value, gameweek, gwd, corrections)]]

(***************************************************************************)
(* Standings: sorted(manager_points.items(), key=total, reverse=True) and  *)
(* enumerate(..., 1).                                                      *)
(***************************************************************************)
\* faulty variant: a new entry goes before the entries whose total equals its own
InsertAtBeforeTies(sorted, e) ==
    IF \E j \in 1..Len(sorted) : sorted[j].value.total <= e.value.total
    THEN CHOOSE j \in 1..Len(sorted) :
            /\ sorted[j].value.total <= e.value.total
            /\ \A l \in 1..(j - 1) : sorted[l].value.total > e.value.total
    ELSE Len(sorted) + 1

\* where a new entry goes in a descending list: after every entry whose
\* total is at least its own (sorted() is stable, with reverse=True too)
InsertAt(sorted, e) ==
    IF \E j \in 1..Len(sorted) : sorted[j].value.total < e.value.total
    THEN CHOOSE j \in 1..Len(sorted) :
            /\ sorted[j].value.total < e.value.total
            /\ \A l \in 1..(j - 1) : sorted[l].value.total >= e.value.total
    ELSE Len(sorted) + 1

Insert(sorted, e) ==
    LET j == InsertAt(sorted, e)
    IN  SubSeq(sorted, 1, j - 1) \o <<e>> \o SubSeq(sorted, j, Len(sorted))

RECURSIVE SortFrom(_, _, _)
SortFrom(items, i, sorted) ==
    IF i > Len(items)
    THEN sorted
    ELSE SortFrom(items, i + 1, Insert(sorted, items[i]))

\* sorted(points.items(), key=lambda x: x[1]['total'], reverse=True)
SortedManagers(points) == SortFrom(points, 1, <<>>)

\* faulty variant: managers with equal totals share a position
PositionsShared(sorted) ==
    [i \in 1..Len(sorted) |->
        [key |-> sorted[i].key,
         value |-> 1 + Cardinality({j \in 1..Len(sorted) :
                                      sorted[j].value.total > sorted[i].value.total})]]

\* {manager: position for position, (manager, _) in enumerate(sorted, 1)}
Positions(sorted) ==
    [i \in 1..Len(sorted) |-> [key |-> sorted[i].key, value |-> i]]

Standings(gw, points) ==
    [gameweek |-> gw, standings |-> Positions(SortedManagers(points))]

(***************************************************************************)
(* calculate_recent_gameweek_points.                                       *)
(***************************************************************************)
\* the first phase of PHASES whose range contains gw; NoPhase when none does
PhaseOf(gw) ==
    IF \E k \in DOMAIN PHASES : InPhase(gw, k)
    THEN CHOOSE k \in DOMAIN PHASES :
            InPhase(gw, k) /\ \A j \in DOMAIN PHASES : InPhase(gw, j) => k <= j
    ELSE NoPhase

RECURSIVE RosterCorrections(_, _, _)
\* every correction whose player is in its phase's roster, whatever the phase
RosterCorrections(corrections, i, phases) ==
    IF i > Len(corrections)
    THEN 0
    ELSE (IF CorrectionApplies(corrections[i], phases) THEN corrections[i][3] ELSE 0)
         + RosterCorrections(corrections, i + 1, phases)

\* faulty variant: the corrections of every phase of the manager are added
calculate_recent_gameweek_points_all_phases(manager, phase_points, squads, gwd, cgw, corrections) ==
    LET current_phase == PhaseOf(cgw)
        known == IF HasKey(phase_points, manager)
                 THEN DOMAIN Get(phase_points, manager) ELSE {}
    IN  IF cgw = 0
        THEN 0
        ELSE IF current_phase = NoPhase \/ current_phase \notin known
        THEN 0
        ELSE IF HasKey(squads, manager) /\ current_phase \in DOMAIN Get(squads, manager)
        THEN LET players == Get(squads, manager)[current_phase]
             IN  (IF cgw \in DOMAIN gwd THEN GwPoints(players, 1, gwd[cgw]) ELSE 0)
                 + RosterCorrections(corrections, 1, Get(squads, manager))
        ELSE 0

calculate_recent_gameweek_points(manager, phase_points, squads, gwd, cgw, corrections) ==
    LET current_phase == PhaseOf(cgw)
        known == IF HasKey(phase_points, manager)
                 THEN DOMAIN Get(phase_points, manager) ELSE {}
    IN  IF cgw = 0
        THEN 0
        ELSE IF current_phase = NoPhase \/ current_phase \notin known
        THEN 0
        ELSE IF HasKey(squads, manager) /\ current_phase \in DOMAIN Get(squads, manager)
        THEN LET players == Get(squads, manager)[current_phase]
             IN  (IF cgw \in DOMAIN gwd THEN GwPoints(players, 1, gwd[cgw]) ELSE 0)
                 + PhaseCorrections(corrections, 1, current_phase, players)
        ELSE 0

(***************************************************************************)
(* Standings Comparator: generate_league_table.                            *)
(***************************************************************************)
\* faulty variant: the two comparisons are the wrong way round
PositionChangeInverted(manager, position, prev_positions) ==
    IF HasKey(prev_positions, manager)
    THEN LET prev_pos == Get(prev_positions, manager)
         IN  IF prev_pos < position THEN "UP"
             ELSE IF prev_pos > position THEN "DOWN"
             ELSE "UNCHANGED"
    ELSE "NEW"

\* the movement indicator of one row
PositionChange(manager, position, prev_positions) ==
    IF HasKey(prev_positions, manager)
    THEN LET prev_pos == Get(prev_positions, manager)
         IN  IF prev_pos > position THEN "UP"
             ELSE IF prev_pos < position THEN "DOWN"
             ELSE "UNCHANGED"
    ELSE "NEW"

\* faulty variant: the roster of the earliest phase the manager has, not of Phase 1
Phase1SquadPerformanceFirstRoster(phases, gwd, cgw) ==
    RawPhasePoints(IF DOMAIN phases = {} THEN <<>>
                   ELSE phases[CHOOSE k \in DOMAIN phases : \A j \in DOMAIN phases : k <= j],
                   1, cgw + 1, gwd)

\* phase1_squad_performance: the Phase 1 squad over gameweeks 1..current
Phase1SquadPerformance(phases, gwd, cgw) ==
    RawPhasePoints(IF 1 \in DOMAIN phases THEN phases[1] ELSE <<>>, 1, cgw + 1, gwd)

\* phase1_diffs as items sorted by their value
Phase1Diffs(manager_points, squads, gwd, cgw) ==
    [i \in 1..Len(manager_points) |->
        [key |-> manager_points[i].key,
         value |-> [total |-> manager_points[i].value.total
                      - Phase1SquadPerformance(Get(squads, manager_points[i].key), gwd, cgw)]]]

\* faulty variant: the rows are ordered by the difference from the Phase 1
\* squad performance
generate_league_table_by_diff(manager_points, phase_points, prev, squads, gwd, cgw, corrections) ==
    LET diffs == Phase1Diffs(manager_points, squads, gwd, cgw)
        sorted_managers == SortedManagers(diffs)
        diff_rankings == Positions(SortedManagers(diffs))
    IN  [position \in 1..Len(sorted_managers) |->
            LET manager == sorted_managers[position].key
                total == sorted_managers[position].value.total
            IN  [manager |-> manager,
                 position |-> position,
                 total |-> total,
                 change |-> PositionChange(manager, position, prev.standings),
                 weekly |-> calculate_recent_gameweek_points(
                                manager, phase_points, squads, gwd, cgw, corrections),
                 gap_to_above |-> IF position > 1
                                  THEN sorted_managers[position - 1].value.total - total
                                  ELSE 0,
                 gap_to_top |-> sorted_managers[1].value.total - total,
                 diff_from_phase1 |-> Get(diffs, manager).total,
                 diff_rank |-> Get(diff_rankings, manager)]]

generate_league_table(manager_points, phase_points, prev, squads, gwd, cgw, corrections) ==
    LET sorted_managers == SortedManagers(manager_points)
        diffs == Phase1Diffs(manager_points, squads, gwd, cgw)
        diff_rankings == Positions(SortedManagers(diffs))
    IN  [position \in 1..Len(sorted_managers) |->
            LET manager == sorted_managers[position].key
                total == sorted_managers[position].value.total
            IN  [manager |-> manager,
                 position |-> position,
                 total |-> total,
                 change |-> PositionChange(manager, position, prev.standings),
                 weekly |-> calculate_recent_gameweek_points(
                                manager, phase_points, squads, gwd, cgw, corrections),
                 gap_to_above |-> IF position > 1
                                  THEN sorted_managers[position - 1].value.total - total
                                  ELSE 0,
                 gap_to_top |-> sorted_managers[1].value.total - total,
                 diff_from_phase1 |-> Get(diffs, manager).total,
                 diff_rank |-> Get(diff_rankings, manager)]]

(***************************************************************************)
(* calculate_position_changes.                                             *)
(***************************************************************************)
\* faulty variant: a persisted snapshot, when there is one, is taken as the baseline
calculate_position_changes_from_file(current_gw, squads, gwd, corrections) ==
    IF current_gw <= 1
    THEN [current |-> [gameweek |-> current_gw, standings |-> EmptyDict],
          previous |-> [gameweek |-> 0, standings |-> EmptyDict]]
    ELSE [current |-> Standings(current_gw,
                        calculate_points_up_to_gameweek(current_gw, squads, gwd, corrections)),
          previous |-> IF standings_file.kind = "snapshot"
                       THEN [gameweek |-> standings_file.gameweek,
                             standings |-> standings_file.standings]
                       ELSE Standings(current_gw - 1,
                               calculate_points_up_to_gameweek(current_gw - 1, squads, gwd,
                                                               corrections))]

calculate_position_changes(current_gw, squads, gwd, corrections) ==
    IF current_gw <= 1
    THEN [current |-> [gameweek |-> current_gw, standings |-> EmptyDict],
          previous |-> [gameweek |-> 0, standings |-> EmptyDict]]
    ELSE [current |-> Standings(current_gw,
                        calculate_points_up_to_gameweek(current_gw, squads, gwd, corrections)),
          previous |-> Standings(current_gw - 1,
                        calculate_points_up_to_gameweek(current_gw - 1, squads, gwd, corrections))]

(***************************************************************************)
(* Snapshot Store: load_previous_standings and save_current_standings.     *)
(* The file is absent, unparseable ("corrupt"), holds one snapshot or      *)
(* holds JSON of another shape ("list", "partial").                        *)
(***************************************************************************)
NoSnapshot == [kind |-> "empty", gameweek |-> 0, standings |-> EmptyDict]

Snapshot(gw, standings) ==
    [kind |-> "snapshot", gameweek |-> gw, standings |-> standings]

\* json.load returns whatever the file parses as: a snapshot, a JSON value
\* that is not an object ("list") or an object without "standings" ("partial")
load_previous_standings(file) ==
    IF file.kind \in {"snapshot", "list", "partial"} THEN file ELSE NoSnapshot

\* faulty variant: the ranks of the managers of the stored snapshot that the
\* new scores do not have are kept
save_current_standings_merging(manager_points, cgw) ==
    LET new == Positions(SortedManagers(manager_points))
        old == load_previous_standings(standings_file).standings
    IN  Snapshot(cgw, new \o SelectSeq(old, LAMBDA e : ~HasKey(new, e.key)))

\* the record save_current_standings dumps to STANDINGS_FILE
save_current_standings(manager_points, cgw) ==
    Snapshot(cgw, Positions(SortedManagers(manager_points)))

(***************************************************************************)
(* --test-movement: the artificial changes main makes to the loaded        *)
(* standings.                                                              *)
(***************************************************************************)
SetPosition(st, m, p) ==
    [i \in 1..Len(st) |-> IF st[i].key = m THEN [key |-> m, value |-> p] ELSE st[i]]

\* swap the positions of manager1 and manager2
SwapPositions(st, manager1, manager2) ==
    SetPosition(SetPosition(st, manager1, Get(st, manager2)), manager2, Get(st, manager1))

\* move manager3 up one place and the first other manager found there down
MoveUp(st, manager3) ==
    LET pos3 == Get(st, manager3)
        moved == SetPosition(st, manager3, pos3 - 1)
        there == {i \in 1..Len(moved) :
                    moved[i].key # manager3 /\ moved[i].value = pos3 - 1}
    IN  IF pos3 > 1
        THEN IF there = {}
             THEN moved
             ELSE SetPosition(moved,
                      moved[CHOOSE i \in there : \A j \in there : i <= j].key, pos3)
        ELSE st

(***************************************************************************)
(* Files written with open(file, 'w') and json.dump: the write succeeds,   *)
(* fails before the file is opened (the file is left as it was) or fails   *)
(* after open() has truncated it (what is left does not parse).            *)
(***************************************************************************)
WriteFile(old, new, truncated, disk) ==
    IF disk = "ok" THEN new
    ELSE IF disk = "open_fails" THEN old
    ELSE truncated

(***************************************************************************)
(* The cache: get_cached_data and save_to_cache.  A cache file is absent,  *)
(* younger than CACHE_EXPIRY_HOURS ("fresh"), older ("stale") or does not  *)
(* parse ("corrupt").                                                      *)
(***************************************************************************)
NoData == <<>>

CacheFile(state, data) == [state |-> state, data |-> data]

NoCacheFile == CacheFile("absent", NoData)

\* the file gameweek_<g>.json
GameweekFile(c, gameweek) ==
    IF gameweek \in DOMAIN c.gameweek THEN c.gameweek[gameweek] ELSE NoCacheFile

\* None (hit = FALSE) unless the file exists, is younger than the expiry time
\* and parses
get_cached_data(file) ==
    IF file.state = "fresh"
    THEN [hit |-> TRUE, data |-> file.data]
    ELSE [hit |-> FALSE, data |-> NoData]

\* an IOError is caught and reported as a warning
save_to_cache(file, data, disk) ==
    WriteFile(file, CacheFile("fresh", data), CacheFile("corrupt", NoData), disk)

(***************************************************************************)
(* Ingestion: fetch_bootstrap_data and fetch_gameweek_data.  The result    *)
(* says whether the call raised, the data returned, where it came from and *)
(* the cache the call leaves.                                              *)
(***************************************************************************)
Raised(c) == [raised |-> TRUE, data |-> NoData, source |-> "failed", cache |-> c]

Returned(data, source, c) ==
    [raised |-> FALSE, data |-> data, source |-> source, cache |-> c]

\* always the live request first; the cache only when it fails
fetch_bootstrap_data(e, c) ==
    IF e.bootstrap_up
    THEN Returned(e.bootstrap, "live",
                  [c EXCEPT !.bootstrap = save_to_cache(@, e.bootstrap, e.disk)])
    ELSE LET cached_data == get_cached_data(c.bootstrap)
         IN  IF cached_data.hit
             THEN Returned(cached_data.data, "cache", c)
             ELSE Raised(c)

\* requests.get(url) and save_to_cache for one gameweek; live is what the API
\* answers when it answers
FetchLive(gameweek, e, c, live) ==
    IF gameweek \in e.down
    THEN Raised(c)
    ELSE Returned(live, "live",
                  [c EXCEPT !.gameweek =
                      (gameweek :> save_to_cache(GameweekFile(c, gameweek), live, e.disk))
                      @@ @])

\* the two most recent gameweeks (the ones fetch_gameweek_data always fetches
\* fresh)
Recent(gameweek, cgw) == gameweek >= cgw - 1

\* faulty variant: the cache is looked at first for every gameweek
fetch_gameweek_data_cache_first(gameweek, cgw, e, c, live) ==
    LET cached_data == get_cached_data(GameweekFile(c, gameweek))
    IN  IF cached_data.hit
        THEN Returned(cached_data.data, "cache", c)
        ELSE FetchLive(gameweek, e, c, live)

\* the two most recent gameweeks are always requested live; an older one is
\* read from the cache and requested live only when the cache has nothing
fetch_gameweek_data(gameweek, cgw, e, c, live) ==
    LET cached_data == get_cached_data(GameweekFile(c, gameweek))
    IN  IF cgw > 0 /\ Recent(gameweek, cgw)
        THEN FetchLive(gameweek, e, c, live)
        ELSE IF cached_data.hit
        THEN Returned(cached_data.data, "cache", c)
        ELSE FetchLive(gameweek, e, c, live)

\* process_player_data: the ids of the directory
process_player_data(bootstrap_data) == bootstrap_data.elements

\* the current gameweek main reads from the events: the one flagged current,
\* else the last finished one, else 1
CurrentGameweekOf(bootstrap_data) ==
    IF bootstrap_data.current = 0 THEN 1 ELSE bootstrap_data.current

\* a request answered (or not) in a stage of the run, and a file written
Request(stage, what, gameweek, source) ==
    [stage |-> stage, what |-> what, gameweek |-> gameweek, source |-> source]

Written(stage, what) == Request(stage, what, 0, "written")

Loaded(stage, what) == Request(stage, what, 0, "read")

(***************************************************************************)
(* The inputs of a run.                                                    *)
(***************************************************************************)
\* Squads.csv: Phase 1 rows for B and A, in this order, Phase 2 rows for A
\* (when it has a squad there) and C
SquadFile(b1, a1, a2, c2) ==
    [exists |-> TRUE, filename |-> "Squads.csv",
     rows |-> <<PhaseRow(1), ManagerRow("B", b1), ManagerRow("A", a1), EmptyRow,
                PhaseRow(2), ManagerRow("A", a2), ManagerRow("C", c2)>>]

SquadFiles ==
    {SquadFile(b1, a1, a2, c2) :
        b1 \in {<<1>>, <<2, 2>>}, a1 \in {<<2>>, <<1, 2>>},
        a2 \in {<<>>, <<1>>}, c2 \in {<<2>>, <<1, 2>>}}

\* the squad files of the --test-movement runs
TestSquadFiles ==
    {SquadFile(<<1>>, <<1, 2>>, <<1>>, <<2>>)}

\* no squad file at all, and a file from which no manager row parses
NoSquadFiles ==
    {[exists |-> FALSE, filename |-> "Squads.csv", rows |-> <<>>],
     [exists |-> TRUE, filename |-> "Squads.csv", rows |-> <<BadPhaseRow, ManagerRow("A", <<1>>)>>]}

CorrectionLists ==
    {<<>>, << <<1, 1, 8>> >>, << <<1, 2, -1>>, <<1, 1, 1>> >>}

Entry(k, v) == [key |-> k, value |-> v]

AbsentFile == [kind |-> "absent", gameweek |-> 0, standings |-> EmptyDict]
CorruptFile == [kind |-> "corrupt", gameweek |-> 0, standings |-> EmptyDict]
File2 == Snapshot(1, <<Entry("B", 1), Entry("A", 2)>>)
File4 == Snapshot(1, <<Entry("A", 1), Entry("B", 2), Entry("C", 3), Entry("D", 4)>>)
File5 == Snapshot(11, <<Entry("C", 1), Entry("A", 2), Entry("B", 3),
                         Entry("D", 4), Entry("E", 5)>>)

SnapshotFiles == {AbsentFile, CorruptFile, File2, File4, File5}

\* the gameweeks the API may report as the current one (0: none is current
\* or finished)
CurrentGameweeks == {0, 1, 2} \cup (12..MaxGameweek)

\* the points a gameweek's live data may hold: any players, 1..MaxPoints each
GameweekPoints ==
    UNION {[ps -> 1..MaxPoints] : ps \in SUBSET Players}

\* what the live API serves as bootstrap data: the id of the current gameweek
\* (0: no event is current or finished) and the ids of the elements
Bootstrap(current, elements) == [current |-> current, elements |-> elements]

\* a run in which every request is answered and every file write succeeds
Healthy(current) ==
    [bootstrap_up |-> TRUE, bootstrap |-> Bootstrap(current, Players),
     down |-> {}, disk |-> "ok"]

\* an empty cache directory
NoCache == [bootstrap |-> NoCacheFile, gameweek |-> <<>>]

\* the diagnostics of the model, as the program prints them
MsgNoSquadFiles == "No squad files found."
MsgNoManagers == "ERROR: Could not parse any manager squads from the available files."
MsgStandingsCorrupted == "Warning: Previous standings file is corrupted"
MsgNoCachedData == "ERROR: No cached data available. Cannot proceed."
MsgCacheWriteFailed == "Warning: Failed to write to cache"
MsgStandingsWriteFailed == "Warning: Failed to write standings to cache"
MsgNoPhase == "WARNING: Could not determine phase for gameweek"

NoException == "none"

Globals0 ==
    /\ manager_squads = EmptyDict
    /\ gameweek_data = EmptyDict
    /\ current_gameweek = 0
    /\ previous_standings = NoSnapshot
    /\ result = EmptyResult
    /\ current_standings = NoSnapshot
    /\ league_table = <<>>
    /\ fetch_gw = 0
    /\ pc = "start"
    /\ player_data = {}
    /\ io = {}
    /\ messages = {}
    /\ exception = NoException

\* normal runs: every squad file without a snapshot file, and one squad file
\* next to a snapshot file that does not parse or holds other ranks
InitNormal ==
    /\ test_mode = FALSE
    /\ \/ /\ squads_file \in SquadFiles \cup NoSquadFiles
          /\ standings_file = AbsentFile
       \/ /\ squads_file \in TestSquadFiles \cup NoSquadFiles
          /\ standings_file \in {CorruptFile, File4}
    /\ POINT_CORRECTIONS \in CorrectionLists
    /\ env \in {Healthy(current) : current \in CurrentGameweeks}
    /\ cache = NoCache

\* --test-movement runs
InitTest ==
    /\ test_mode = TRUE
    /\ squads_file \in TestSquadFiles
    /\ POINT_CORRECTIONS = << <<1, 1, 8>> >>
    /\ standings_file \in SnapshotFiles
    /\ env \in {Healthy(current) : current \in {0, 1, 2}}
    /\ cache = NoCache

Init == Globals0 /\ (InitNormal \/ InitTest)

(***************************************************************************)
(* main(), step by step.                                                   *)
(***************************************************************************)
\* faulty variant: only a missing squad file halts the run; a file from which
\* nothing parses lets it go on with no manager
LoadSquadsContinuing ==
    /\ pc = "start"
    /\ manager_squads' = IF squads_file.exists
                         THEN ParseSquads(squads_file)
                         ELSE EmptyDict
    /\ pc' = IF ~squads_file.exists THEN "halted"
             ELSE IF test_mode THEN "load_standings"
             ELSE "bootstrap"
    /\ messages' = IF ~squads_file.exists THEN messages \cup {MsgNoSquadFiles}
                   ELSE IF manager_squads' = EmptyDict
                   THEN messages \cup SquadWarnings(squads_file) \cup {MsgNoManagers}
                   ELSE messages \cup SquadWarnings(squads_file)
    /\ io' = IF ~squads_file.exists /\ env.disk = "ok"
             THEN io \cup {Written("loading", "example_squads")}
             ELSE io
    /\ UNCHANGED <<squads_file, standings_file, test_mode, POINT_CORRECTIONS,
                   gameweek_data, current_gameweek, previous_standings, result,
                   current_standings, league_table, fetch_gw,
                   env, cache, player_data, exception>>

\* find and parse the squads file; halt when there is none or nothing parsed
LoadSquads ==
    /\ pc = "start"
    /\ manager_squads' = IF squads_file.exists
                         THEN ParseSquads(squads_file)
                         ELSE EmptyDict
    /\ pc' = IF manager_squads' = EmptyDict THEN "halted"
             ELSE IF test_mode THEN "load_standings"
             ELSE "bootstrap"
    /\ messages' = IF ~squads_file.exists THEN messages \cup {MsgNoSquadFiles}
                   ELSE IF manager_squads' = EmptyDict
                   THEN messages \cup SquadWarnings(squads_file) \cup {MsgNoManagers}
                   ELSE messages \cup SquadWarnings(squads_file)
    /\ io' = IF ~squads_file.exists /\ env.disk = "ok"
             THEN io \cup {Written("loading", "example_squads")}
             ELSE io
    /\ UNCHANGED <<squads_file, standings_file, test_mode, POINT_CORRECTIONS,
                   gameweek_data, current_gameweek, previous_standings, result,
                   current_standings, league_table, fetch_gw,
                   env, cache, player_data, exception>>

\* test mode: load the saved standings and create artificial movement
LoadStandings ==
    /\ pc = "load_standings"
    /\ LET loaded == load_previous_standings(standings_file)
           managers == Keys(loaded.standings)
       IN  IF loaded.kind = "snapshot" /\ Len(loaded.standings) >= 4
           THEN \E manager1 \in managers : \E manager2 \in managers \ {manager1} :
                  LET swapped == SwapPositions(loaded.standings, manager1, manager2)
                  IN  IF Len(loaded.standings) >= 5
                      THEN \E manager3 \in managers \ {manager1, manager2} :
                             previous_standings' =
                                 [loaded EXCEPT !.standings = MoveUp(swapped, manager3)]
                      ELSE previous_standings' = [loaded EXCEPT !.standings = swapped]
           ELSE previous_standings' = loaded
    /\ messages' = IF standings_file.kind = "corrupt"
                   THEN messages \cup {MsgStandingsCorrupted}
                   ELSE messages
    /\ io' = io \cup {Loaded("loading", "standings")}
    /\ pc' = "bootstrap"
    /\ UNCHANGED <<squads_file, standings_file, test_mode, POINT_CORRECTIONS,
                   manager_squads, gameweek_data, current_gameweek, result,
                   current_standings, league_table, fetch_gw,
                   env, cache, player_data, exception>>

\* fetch the bootstrap data and determine the current gameweek
FetchBootstrap ==
    /\ pc = "bootstrap"
    /\ LET bootstrap_data == fetch_bootstrap_data(env, cache)
       IN  /\ io' = io \cup {Request("ingestion", "bootstrap", 0, bootstrap_data.source)}
           /\ cache' = bootstrap_data.cache
           /\ IF bootstrap_data.raised
              THEN /\ exception' = "RequestException"
                   /\ pc' = "crashed"
                   /\ messages' = messages \cup {MsgNoCachedData}
                   /\ UNCHANGED <<player_data, current_gameweek, fetch_gw>>
              ELSE /\ player_data' = process_player_data(bootstrap_data.data)
                   /\ current_gameweek' = CurrentGameweekOf(bootstrap_data.data)
                   /\ fetch_gw' = 1
                   /\ pc' = "fetch"
                   /\ messages' = IF bootstrap_data.source = "live" /\ env.disk # "ok"
                                  THEN messages \cup {MsgCacheWriteFailed}
                                  ELSE messages
                   /\ exception' = exception
    /\ UNCHANGED <<squads_file, standings_file, test_mode, POINT_CORRECTIONS,
                   manager_squads, gameweek_data, previous_standings, result,
                   current_standings, league_table, env>>

\* one iteration of the loop over range(1, current_gameweek + 1); in the runs
\* modelled the live data of a gameweek older than the two most recent ones
\* has no player entries
FetchGameweek ==
    /\ pc = "fetch"
    /\ fetch_gw <= current_gameweek
    /\ \E points \in GameweekPoints :
          /\ ~Recent(fetch_gw, current_gameweek) => points = EmptyDict
          /\ LET gw_data == fetch_gameweek_data(fetch_gw, current_gameweek, env, cache,
                                                points)
             IN  /\ io' = io \cup {Request("ingestion", "gameweek", fetch_gw,
                                            gw_data.source)}
                 /\ cache' = gw_data.cache
                 /\ IF gw_data.raised
                    THEN /\ exception' = "RequestException"
                         /\ pc' = "crashed"
                         /\ UNCHANGED <<gameweek_data, fetch_gw, messages>>
                    ELSE /\ gameweek_data' = (fetch_gw :> gw_data.data) @@ gameweek_data
                         /\ fetch_gw' = fetch_gw + 1
                         /\ messages' = IF gw_data.source = "live" /\ env.disk # "ok"
                                        THEN messages \cup {MsgCacheWriteFailed}
                                        ELSE messages
                         /\ UNCHANGED <<pc, exception>>
    /\ UNCHANGED <<squads_file, standings_file, test_mode, POINT_CORRECTIONS,
                   manager_squads, current_gameweek, previous_standings, result,
                   current_standings, league_table, env, player_data>>

\* calculate_manager_points(), once every gameweek is fetched
CalculateManagerPoints ==
    /\ pc = "fetch"
    /\ fetch_gw > current_gameweek
    /\ IF PhasesConfigured(manager_squads)
       THEN /\ result' = calculate_manager_points(manager_squads, gameweek_data,
                                                  current_gameweek, POINT_CORRECTIONS)
            /\ pc' = IF test_mode THEN "save" ELSE "positions"
            /\ exception' = exception
       ELSE /\ result' = result
            /\ pc' = "crashed"
            /\ exception' = "KeyError"
    /\ messages' = messages \cup MissingPoints(ManagersBeforeKeyError(manager_squads),
                                                gameweek_data, current_gameweek)
    /\ UNCHANGED <<squads_file, standings_file, test_mode, POINT_CORRECTIONS,
                   manager_squads, gameweek_data, current_gameweek,
                   previous_standings, current_standings, league_table, fetch_gw,
                   env, cache, player_data, io>>

\* faulty variant: in gameweek 1 the persisted snapshot is the baseline
CalculatePositionChangesFileInFirst ==
    /\ pc = "positions"
    /\ IF current_gameweek > 1
       THEN LET both == calculate_position_changes(current_gameweek, manager_squads,
                                                   gameweek_data, POINT_CORRECTIONS)
            IN  /\ current_standings' = Snapshot(both.current.gameweek, both.current.standings)
                /\ previous_standings' = Snapshot(both.previous.gameweek, both.previous.standings)
       ELSE /\ previous_standings' = load_previous_standings(standings_file)
            /\ current_standings' = current_standings
    /\ pc' = "save"
    /\ UNCHANGED <<squads_file, standings_file, test_mode, POINT_CORRECTIONS,
                   manager_squads, gameweek_data, current_gameweek, result,
                   league_table, fetch_gw,
                   env, cache, player_data, io, messages, exception>>

\* not test mode: the standings of the current and of the previous gameweek
CalculatePositionChanges ==
    /\ pc = "positions"
    /\ IF current_gameweek > 1
       THEN LET both == calculate_position_changes(current_gameweek, manager_squads,
                                                   gameweek_data, POINT_CORRECTIONS)
            IN  /\ current_standings' = Snapshot(both.current.gameweek, both.current.standings)
                /\ previous_standings' = Snapshot(both.previous.gameweek, both.previous.standings)
       ELSE /\ previous_standings' = Snapshot(0, EmptyDict)
            /\ current_standings' = current_standings
    /\ pc' = "save"
    /\ UNCHANGED <<squads_file, standings_file, test_mode, POINT_CORRECTIONS,
                   manager_squads, gameweek_data, current_gameweek, result,
                   league_table, fetch_gw,
                   env, cache, player_data, io, messages, exception>>

\* faulty variant: the snapshot is written a second time before the report
SaveCurrentStandingsRepeating ==
    /\ pc = "save"
    /\ standings_file' = WriteFile(standings_file,
                              save_current_standings(result.manager_points,
                                                     current_gameweek),
                              CorruptFile, env.disk)
    /\ io' = IF env.disk = "ok" THEN io \cup {Written("saving", "standings")} ELSE io
    /\ messages' = IF env.disk = "ok" THEN messages
                   ELSE messages \cup {MsgStandingsWriteFailed}
    /\ pc' = IF Written("saving", "standings") \in io THEN "html" ELSE "save"
    /\ UNCHANGED <<squads_file, test_mode, POINT_CORRECTIONS, manager_squads,
                   gameweek_data, current_gameweek, previous_standings, result,
                   current_standings, league_table, fetch_gw,
                   env, cache, player_data, exception>>

\* save_current_standings(manager_points): an IOError is caught and reported
SaveCurrentStandings ==
    /\ pc = "save"
    /\ standings_file' = WriteFile(standings_file,
                              save_current_standings(result.manager_points,
                                                     current_gameweek),
                              CorruptFile, env.disk)
    /\ io' = IF env.disk = "ok" THEN io \cup {Written("saving", "standings")} ELSE io
    /\ messages' = IF env.disk = "ok" THEN messages
                   ELSE messages \cup {MsgStandingsWriteFailed}
    /\ pc' = "html"
    /\ UNCHANGED <<squads_file, test_mode, POINT_CORRECTIONS, manager_squads,
                   gameweek_data, current_gameweek, previous_standings, result,
                   current_standings, league_table, fetch_gw,
                   env, cache, player_data, exception>>

\* calculate_recent_gameweek_points prints its warning for some manager
RecentWarning(manager_points, phase_points, cgw) ==
    /\ cgw # 0
    /\ \E i \in 1..Len(manager_points) :
          \/ PhaseOf(cgw) = NoPhase
          \/ ~HasKey(phase_points, manager_points[i].key)
          \/ PhaseOf(cgw) \notin DOMAIN Get(phase_points, manager_points[i].key)

\* what calculate_recent_gameweek_points prints, called for every manager,
\* about the players of the current phase's roster without an entry in the
\* data of the current gameweek
RecentMissing(manager_points, phase_points, squads, gwd, cgw) ==
    LET current_phase == PhaseOf(cgw)
        silent(manager) ==
            \/ cgw = 0 \/ current_phase = NoPhase
            \/ ~HasKey(phase_points, manager)
            \/ current_phase \notin DOMAIN Get(phase_points, manager)
            \/ ~HasKey(squads, manager)
            \/ current_phase \notin DOMAIN Get(squads, manager)
    IN  UNION {IF silent(manager_points[i].key)
               THEN {}
               ELSE LET players == Get(squads, manager_points[i].key)[current_phase]
                    IN  {MsgNoPoints(players[n], cgw) :
                            n \in {n \in 1..Len(players) :
                                      \/ cgw \notin DOMAIN gwd
                                      \/ players[n] \notin DOMAIN gwd[cgw]}} :
              i \in 1..Len(manager_points)}

\* the bootstrap data generate_html gets for the all players tab: the cached
\* copy when get_cached_data returns one, else fetch_bootstrap_data(); an
\* exception is caught and the tab is left empty
HtmlBootstrap(e, c) ==
    LET cached_data == get_cached_data(c.bootstrap)
    IN  IF cached_data.hit
        THEN Returned(cached_data.data, "cache", c)
        ELSE fetch_bootstrap_data(e, c)

\* generate_html(...) and the write of fantasy_football.html
GenerateHtml ==
    /\ pc = "html"
    /\ LET bootstrap_data == HtmlBootstrap(env, cache)
           asked == {Request("rendering", "bootstrap", 0, bootstrap_data.source)}
       IN  /\ cache' = bootstrap_data.cache
           /\ IF previous_standings.kind = "list"
              THEN /\ league_table' = league_table
                   /\ io' = io \cup asked
                   /\ messages' = messages
                   /\ exception' = "AttributeError"
                   /\ pc' = "crashed"
              ELSE /\ league_table' =
                          generate_league_table(result.manager_points, result.phase_points,
                              previous_standings, manager_squads, gameweek_data,
                              current_gameweek, POINT_CORRECTIONS)
                   /\ messages' = (IF RecentWarning(result.manager_points,
                                                    result.phase_points, current_gameweek)
                                   THEN messages \cup {MsgNoPhase}
                                   ELSE messages)
                                  \cup RecentMissing(result.manager_points,
                                           result.phase_points, manager_squads,
                                           gameweek_data, current_gameweek)
                   /\ IF env.disk = "ok"
                      THEN /\ io' = io \cup asked \cup {Written("rendering", "report")}
                           /\ exception' = exception
                           /\ pc' = "done"
                      ELSE /\ io' = io \cup asked
                           /\ exception' = "IOError"
                           /\ pc' = "crashed"
    /\ UNCHANGED <<squads_file, standings_file, test_mode, POINT_CORRECTIONS,
                   manager_squads, gameweek_data, current_gameweek,
                   previous_standings, result, current_standings, fetch_gw,
                   env, player_data>>

Next ==
    \/ LoadSquads
    \/ LoadStandings
    \/ FetchBootstrap
    \/ FetchGameweek
    \/ CalculateManagerPoints
    \/ CalculatePositionChanges
    \/ SaveCurrentStandings
    \/ GenerateHtml

Spec == Init /\ [][Next]_vars

(***************************************************************************)
(* Runs under faults: requests the API does not answer, cache files of any *)
(* age, file writes that fail, a player directory that lacks a rostered    *)
(* player, a current gameweek after the last phase, a roster for a phase   *)
(* that PHASES does not have, and snapshot files of another shape.         *)
(***************************************************************************)
\* STANDINGS_FILE holding JSON that is not an object, and an object without
\* "standings"
ListFile == [kind |-> "list", gameweek |-> 0, standings |-> EmptyDict]
PartialFile == [kind |-> "partial", gameweek |-> 4, standings |-> EmptyDict]

\* Squads.csv with a roster under a "Phase 6" header
UnconfiguredSquadFile ==
    [exists |-> TRUE, filename |-> "Squads.csv",
     rows |-> <<PhaseRow(1), ManagerRow("B", <<1>>), PhaseRow(6), ManagerRow("A", <<2>>)>>]

\* the current gameweek of the runs under faults: gameweek 1 is older than
\* the two most recent ones
FaultGameweek == PHASES[1].start + 2

\* the first gameweek after the last phase
AfterLastPhase == PHASES[5].stop

FaultyRuns ==
    {[Healthy(FaultGameweek) EXCEPT !.bootstrap_up = FALSE],
     [Healthy(FaultGameweek) EXCEPT !.down = {1}],
     [Healthy(FaultGameweek) EXCEPT !.down = {FaultGameweek}],
     [Healthy(FaultGameweek) EXCEPT !.bootstrap = Bootstrap(FaultGameweek, {1})],
     [Healthy(FaultGameweek) EXCEPT !.disk = "open_fails"],
     [Healthy(FaultGameweek) EXCEPT !.disk = "write_fails"],
     Healthy(AfterLastPhase)}

\* CACHE_DIR with a copy of the bootstrap data and of the gameweeks 1 and
\* FaultGameweek, all of one age
Cached(state) ==
    [bootstrap |-> CacheFile(state, Bootstrap(2, Players)),
     gameweek |-> (1 :> CacheFile(state, (1 :> 1)))
                  @@ (FaultGameweek :> CacheFile(state, (2 :> 1)))]

Caches == {NoCache, Cached("fresh"), Cached("stale")}

InitFaultsNormal ==
    /\ test_mode = FALSE
    /\ squads_file \in TestSquadFiles \cup {UnconfiguredSquadFile}
    /\ POINT_CORRECTIONS = << <<1, 1, 8>> >>
    /\ standings_file = AbsentFile
    /\ env \in FaultyRuns
    /\ cache \in Caches

InitFaultsTest ==
    /\ test_mode = TRUE
    /\ squads_file \in TestSquadFiles
    /\ POINT_CORRECTIONS = << <<1, 1, 8>> >>
    /\ standings_file \in {AbsentFile, CorruptFile, ListFile, PartialFile, File2}
    /\ env \in {Healthy(1), Healthy(2)}
    /\ cache = NoCache

InitFaults == Globals0 /\ (InitFaultsNormal \/ InitFaultsTest)

SpecFaults == InitFaults /\ [][Next]_vars

(***************************************************************************)
(* The program run again and again on the files the runs before left: the  *)
(* process starts with fresh globals, STANDINGS_FILE and CACHE_DIR stay.   *)
(***************************************************************************)
\* a squad file with another set of managers
OtherSquadFile ==
    [exists |-> TRUE, filename |-> "Squads.csv",
     rows |-> <<PhaseRow(1), ManagerRow("D", <<2>>), ManagerRow("A", <<1>>)>>]

StoreSquadFiles == TestSquadFiles \cup {OtherSquadFile}

StoreRuns ==
    {[Healthy(current) EXCEPT !.disk = disk] :
        current \in {1, 2}, disk \in {"ok", "open_fails", "write_fails"}}

InitStore ==
    /\ Globals0
    /\ test_mode \in BOOLEAN
    /\ squads_file \in StoreSquadFiles
    /\ POINT_CORRECTIONS = << <<1, 1, 8>> >>
    /\ standings_file = AbsentFile
    /\ env \in StoreRuns
    /\ cache = NoCache

\* python fantasy_football_tracker.py once more, after the run before ended:
\* another squad file, other answers of the API and the disk, another mode
Restart(files, runs, modes) ==
    /\ pc \in {"done", "halted", "crashed"}
    /\ manager_squads' = EmptyDict
    /\ gameweek_data' = EmptyDict
    /\ current_gameweek' = 0
    /\ previous_standings' = NoSnapshot
    /\ result' = EmptyResult
    /\ current_standings' = NoSnapshot
    /\ league_table' = <<>>
    /\ fetch_gw' = 0
    /\ pc' = "start"
    /\ player_data' = {}
    /\ io' = {}
    /\ messages' = {}
    /\ exception' = NoException
    /\ test_mode' \in modes
    /\ squads_file' \in files
    /\ env' \in runs
    /\ UNCHANGED <<standings_file, cache, POINT_CORRECTIONS>>

NextRun == Restart(StoreSquadFiles, StoreRuns, BOOLEAN)

NextStore == Next \/ NextRun

SpecStore == InitStore /\ [][NextStore]_vars

(***************************************************************************)
(* Runs over a cache directory: files of every age to start with, then the *)
(* files the runs before left.  Every write succeeds; requests may fail.   *)
(***************************************************************************)
CacheRuns ==
    {[Healthy(current) EXCEPT !.down = down] :
        current \in {1, FaultGameweek}, down \in {{}, {1}}}

InitCache ==
    /\ Globals0
    /\ test_mode \in BOOLEAN
    /\ squads_file \in TestSquadFiles
    /\ POINT_CORRECTIONS = << <<1, 1, 8>> >>
    /\ standings_file = AbsentFile
    /\ env \in CacheRuns
    /\ cache \in Caches \cup {Cached("corrupt")}

NextRunCache == Restart(TestSquadFiles, CacheRuns, BOOLEAN)

NextCache == Next \/ NextRunCache

SpecCache == InitCache /\ [][NextCache]_vars

(***************************************************************************)
(* Roster loading on every squad file of up to MaxRows rows, read by       *)
(* either parser.                                                          *)
(***************************************************************************)
Rows ==
    {PhaseRow(1), PhaseRow(2), BadPhaseRow, EmptyRow,
     ManagerRow("A", <<1>>), ManagerRow("B", <<2>>), ManagerRow("A", <<2, 1>>),
     BadManagerRow("A")}

RowSequences == UNION {[1..n -> Rows] : n \in 0..MaxRows}

InitParse ==
    /\ Globals0
    /\ test_mode = FALSE
    /\ squads_file \in {[exists |-> TRUE, filename |-> f, rows |-> rows] :
                            f \in {"Squads.csv", "Squads.txt"}, rows \in RowSequences}
    /\ POINT_CORRECTIONS = <<>>
    /\ standings_file = AbsentFile
    /\ env = Healthy(1)
    /\ cache = NoCache

NextParse == LoadSquads

SpecParse == InitParse /\ [][NextParse]_vars

(***************************************************************************)
(* The aggregator called a second time on the state the first call left.   *)
(***************************************************************************)
Recalculate ==
    /\ pc \in {"positions", "save"}
    /\ result' = calculate_manager_points(manager_squads, gameweek_data,
                                          current_gameweek, POINT_CORRECTIONS)
    /\ UNCHANGED <<squads_file, standings_file, test_mode, POINT_CORRECTIONS,
                   manager_squads, gameweek_data, current_gameweek,
                   previous_standings, current_standings, league_table, fetch_gw, pc,
                   env, cache, player_data, io, messages, exception>>

NextTwice == Next \/ Recalculate

SpecTwice == Init /\ [][NextTwice]_vars

(***************************************************************************)
(* Properties.                                                             *)
(***************************************************************************)
\* calculate_manager_points has returned, and calculate_position_changes too
\* when the run calls it
Aggregated == pc = "save"

\* the gameweeks calculate_position_changes computes the points up to
ComparedGameweeks == {current_gameweek - 1, current_gameweek} \ {0}

UpTo(g) ==
    calculate_points_up_to_gameweek(g, manager_squads, gameweek_data, POINT_CORRECTIONS)

UpToWith(g, corrections) ==
    calculate_points_up_to_gameweek(g, manager_squads, gameweek_data, corrections)

PhaseEntry(e, k) == IF k \in DOMAIN e.phase THEN e.phase[k] ELSE 0

\* the sum of the 'phase_<k>' entries of one manager's score
SumOfPhaseEntries(e) ==
    PhaseEntry(e, 1) + PhaseEntry(e, 2) + PhaseEntry(e, 3) + PhaseEntry(e, 4)
    + PhaseEntry(e, 5)

TotalIsSumOfPhases(points) ==
    \A i \in 1..Len(points) :
        /\ DOMAIN points[i].value.phase \subseteq 1..5
        /\ points[i].value.total = SumOfPhaseEntries(points[i].value)

\* C1: every manager score of calculate_manager_points and of
\* calculate_points_up_to_gameweek has a grand total equal to the sum of that
\* manager's per-phase totals, corrections included
C1_TotalIsSumOfPhases ==
    Aggregated =>
        /\ TotalIsSumOfPhases(result.manager_points)
        /\ \A g \in ComparedGameweeks : TotalIsSumOfPhases(UpTo(g))

\* a manager with two phases, points scored and a correction applied
C1_Witness ==
    /\ pc = "save"
    /\ ~test_mode
    /\ current_gameweek > 1
    /\ \E i \in 1..Len(result.manager_points) :
          LET e == result.manager_points[i].value
          IN  /\ DOMAIN e.phase = {1, 2}
              /\ e.phase[1] > 0
              /\ e.phase[2] > 0
              /\ e.total = e.phase[1] + e.phase[2]
              /\ \E c \in 1..Len(POINT_CORRECTIONS) :
                    CorrectionApplies(POINT_CORRECTIONS[c], manager_squads[i].value)

RECURSIVE Sigma(_)
\* the sum of the values of a function with a finite domain
Sigma(f) ==
    IF DOMAIN f = {}
    THEN 0
    ELSE LET x == CHOOSE x \in DOMAIN f : TRUE
         IN  f[x] + Sigma([y \in DOMAIN f \ {x} |-> f[y]])

Range(seq) == {seq[i] : i \in 1..Len(seq)}

\* the score of a player in a gameweek, 0 when there is no entry
Score(g, player) ==
    IF player \in DOMAIN gameweek_data[g] THEN gameweek_data[g][player] ELSE 0

\* the scores of a roster over the gameweeks of a set that have data
ScoreSum(player_ids, gameweeks) ==
    Sigma([x \in {<<g, j>> : g \in gameweeks \cap DOMAIN gameweek_data,
                             j \in 1..Len(player_ids)} |->
              Score(x[1], player_ids[x[2]])])

\* the deltas of the adjustments of phase k whose player is in the roster
AdjustmentSum(player_ids, k, corrections) ==
    Sigma([c \in {c \in 1..Len(corrections) :
                    corrections[c][2] = k /\ corrections[c][1] \in Range(player_ids)} |->
              corrections[c][3]])

GameweeksOf(k) == {g \in 1..38 : InPhase(g, k)}

\* C2: the phase total of calculate_manager_points is the sum, over the
\* gameweeks of the phase that have data, of the scores of the rostered players
\* (0 for a missing entry), plus the deltas of the matching adjustments
C2_PhaseTotal ==
    Aggregated =>
        \A i \in 1..Len(manager_squads) :
            LET manager == manager_squads[i].key
                phases == manager_squads[i].value
            IN  /\ HasKey(result.manager_points, manager)
                /\ DOMAIN Get(result.manager_points, manager).phase = DOMAIN phases
                /\ \A k \in DOMAIN phases :
                      Get(result.manager_points, manager).phase[k]
                        = ScoreSum(phases[k], GameweeksOf(k))
                          + AdjustmentSum(phases[k], k, POINT_CORRECTIONS)

\* a roster of two players with data in two gameweeks of its phase, one entry
\* missing, and a matching adjustment
C2_Witness ==
    /\ pc = "save"
    /\ \E i \in 1..Len(manager_squads) : \E k \in DOMAIN manager_squads[i].value :
          LET ids == manager_squads[i].value[k]
          IN  /\ Len(ids) = 2
              /\ \E g1, g2 \in GameweeksOf(k) \cap DOMAIN gameweek_data :
                    /\ g1 # g2
                    /\ ids[1] \in DOMAIN gameweek_data[g1]
                    /\ ids[2] \notin DOMAIN gameweek_data[g1]
                    /\ ids[2] \in DOMAIN gameweek_data[g2]
              /\ AdjustmentSum(ids, k, POINT_CORRECTIONS) # 0
              /\ Get(result.manager_points, manager_squads[i].key).phase[k]
                    > AdjustmentSum(ids, k, POINT_CORRECTIONS)

\* seq without its i-th element
Without(seq, i) == SubSeq(seq, 1, i - 1) \o SubSeq(seq, i + 1, Len(seq))

AggregateWith(corrections) ==
    calculate_manager_points(manager_squads, gameweek_data, current_gameweek,
                             corrections).manager_points

\* what one adjustment (P, K, D) changes in a manager's score: D in the phase
\* K total and in the grand total when the phase K roster contains P, nothing
\* otherwise
AdjustmentEffect(with, without, phases, c) ==
    LET held == c[2] \in DOMAIN phases /\ c[1] \in Range(phases[c[2]])
    IN  /\ DOMAIN with.phase = DOMAIN without.phase
        /\ \A k \in DOMAIN with.phase :
              with.phase[k] - without.phase[k] = IF held /\ k = c[2] THEN c[3] ELSE 0
        /\ with.total - without.total = IF held THEN c[3] ELSE 0

AdjustmentEffects(with, without, c) ==
    \A i \in 1..Len(manager_squads) :
        AdjustmentEffect(with[i].value, without[i].value, manager_squads[i].value, c)

\* C3: an adjustment (P, K, D) changes the phase K total and the grand total
\* of every manager whose phase K roster contains P by exactly D, once per such
\* manager, and leaves every total of every other manager unchanged
C3_AdjustmentEffect ==
    Aggregated =>
        \A c \in 1..Len(POINT_CORRECTIONS) :
            /\ result.manager_points = AggregateWith(POINT_CORRECTIONS)
            /\ AdjustmentEffects(result.manager_points,
                                 AggregateWith(Without(POINT_CORRECTIONS, c)),
                                 POINT_CORRECTIONS[c])
            /\ \A g \in ComparedGameweeks :
                  AdjustmentEffects(UpTo(g), UpToWith(g, Without(POINT_CORRECTIONS, c)),
                                    POINT_CORRECTIONS[c])

\* an adjustment whose player two managers hold in its phase and a third
\* manager does not
C3_Witness ==
    /\ pc = "save"
    /\ \E c \in 1..Len(POINT_CORRECTIONS) :
          /\ POINT_CORRECTIONS[c][3] # 0
          /\ \E i, j, l \in 1..Len(manager_squads) :
                /\ i # j
                /\ CorrectionApplies(POINT_CORRECTIONS[c], manager_squads[i].value)
                /\ CorrectionApplies(POINT_CORRECTIONS[c], manager_squads[j].value)
                /\ ~CorrectionApplies(POINT_CORRECTIONS[c], manager_squads[l].value)

\* st assigns each of the managers one position, the positions 1..N each once
IsRanking(st, managers) ==
    /\ Len(st) = Cardinality(managers)
    /\ Keys(st) = managers
    /\ {st[i].value : i \in 1..Len(st)} = 1..Cardinality(managers)

\* the positions of the league table as a standings mapping
TablePositions ==
    [i \in 1..Len(league_table) |->
        [key |-> league_table[i].manager, value |-> league_table[i].position]]

Saved == pc = "done"

\* calculate_position_changes has computed both standings
Compared == ~test_mode /\ current_gameweek > 1 /\ pc \in {"save", "done"}

\* C4: the saved snapshot, the current and previous standings of
\* calculate_position_changes and the positions of the league table each give
\* the N managers of the score mapping the ranks 1..N, one manager per rank
C4_RanksAreBijection ==
    LET managers == Keys(result.manager_points)
    IN  /\ Aggregated => managers = Keys(manager_squads)
        /\ Saved => IsRanking(standings_file.standings, managers)
        /\ Compared => /\ IsRanking(current_standings.standings, managers)
                       /\ IsRanking(previous_standings.standings, managers)
        /\ pc = "done" => IsRanking(TablePositions, managers)

\* three managers, two of them with the same grand total, all standings built
C4_Witness ==
    /\ pc = "done"
    /\ Compared
    /\ Len(result.manager_points) = 3
    /\ \E i, j \in 1..3 :
          /\ i # j
          /\ result.manager_points[i].value.total = result.manager_points[j].value.total
    /\ \E i, j \in 1..3 :
          /\ i # j
          /\ UpTo(current_gameweek - 1)[i].value.total
                = UpTo(current_gameweek - 1)[j].value.total

\* st ranks the managers of points by total, highest first, and managers with
\* equal totals in the order of points (the order of manager_squads)
RanksByTotal(st, points) ==
    /\ [i \in 1..Len(points) |-> points[i].key]
          = [i \in 1..Len(manager_squads) |-> manager_squads[i].key]
    /\ \A i, j \in 1..Len(points) :
          i < j =>
             /\ HasKey(st, points[i].key)
             /\ HasKey(st, points[j].key)
             /\ points[i].value.total >= points[j].value.total
                   => Get(st, points[i].key) < Get(st, points[j].key)
             /\ points[i].value.total < points[j].value.total
                   => Get(st, points[j].key) < Get(st, points[i].key)

\* C5: rank 1 is the highest grand total, a strictly higher total has the
\* smaller rank, and managers with equal totals are ranked in the order in
\* which the roster input first names them
C5_RanksByTotalThenInputOrder ==
    /\ Saved => RanksByTotal(standings_file.standings, result.manager_points)
    /\ Compared =>
          /\ RanksByTotal(current_standings.standings, UpTo(current_gameweek))
          /\ RanksByTotal(previous_standings.standings, UpTo(current_gameweek - 1))
    /\ pc = "done" => RanksByTotal(TablePositions, result.manager_points)

\* the manager named second has the highest total and the other two are tied
C5_Witness ==
    /\ pc = "done"
    /\ Compared
    /\ Len(result.manager_points) = 3
    /\ result.manager_points[2].value.total > result.manager_points[1].value.total
    /\ result.manager_points[1].value.total = result.manager_points[3].value.total
    /\ Get(TablePositions, result.manager_points[2].key) = 1
    /\ Get(TablePositions, result.manager_points[1].key) = 2
    /\ Get(TablePositions, result.manager_points[3].key) = 3

\* the one movement state the comparator's table prescribes
MovementState(rank, baseline, manager) ==
    IF ~HasKey(baseline, manager) THEN "NEW"
    ELSE IF rank < Get(baseline, manager) THEN "UP"
    ELSE IF rank > Get(baseline, manager) THEN "DOWN"
    ELSE "UNCHANGED"

\* C6: every manager of the current standings is reported NEW without a
\* baseline entry, else UP when its rank is less than its baseline rank, DOWN
\* when it is greater and UNCHANGED when the two are equal
C6_MovementStates ==
    pc = "done" =>
        /\ Len(league_table) = Len(result.manager_points)
        /\ \A i \in 1..Len(league_table) :
              /\ league_table[i].position = i
              /\ league_table[i].change
                    = MovementState(i, previous_standings.standings, league_table[i].manager)

\* one manager moved up, one moved down and one is new
C6_Witness ==
    /\ pc = "done"
    /\ \E i, j, k \in 1..Len(league_table) :
          /\ league_table[i].change = "UP"
          /\ league_table[j].change = "DOWN"
          /\ league_table[k].change = "NEW"

AllNew == \A i \in 1..Len(league_table) : league_table[i].change = "NEW"

\* C7 as stated: in every run in which the current gameweek is 1, test mode
\* included, every manager is reported NEW
C7_AllNewInFirstGameweek ==
    pc = "done" /\ current_gameweek = 1 => AllNew

\* C7 amended: in every run without --test-movement in which the current
\* gameweek is 1, every manager is reported NEW
C7_AllNewInFirstGameweekNormalMode ==
    pc = "done" /\ current_gameweek = 1 /\ ~test_mode => AllNew

\* a normal run in gameweek 1 whose table has three managers, next to a
\* snapshot file that names them
C7_Witness ==
    /\ pc = "done"
    /\ current_gameweek = 1
    /\ ~test_mode
    /\ Len(league_table) = 3
    /\ standings_file.kind = "snapshot"
    /\ \A i \in 1..3 : HasKey(standings_file.standings, league_table[i].manager)

\* the standings of the previous gameweek, from the run's own data
RecomputedBaseline ==
    Standings(current_gameweek - 1, UpTo(current_gameweek - 1))

CurrentPhases == {k \in DOMAIN PHASES : InPhase(current_gameweek, k)}

\* the points of the most recent gameweek the side query is to return
ExpectedRecent(manager) ==
    LET phases == Get(manager_squads, manager)
        here == CurrentPhases \cap DOMAIN phases
    IN  IF here = {}
        THEN 0
        ELSE LET k == CHOOSE k \in here : TRUE
             IN  ScoreSum(phases[k], {current_gameweek})
                 + AdjustmentSum(phases[k], k, POINT_CORRECTIONS)

\* C10: the points of the most recent gameweek are the current gameweek's
\* scores of the roster of the phase containing it (0 for a missing entry) plus
\* the adjustments the aggregator applies to that manager in that phase, and 0
\* without a roster for that phase; adjustments of other phases stay out
C10_RecentGameweekPoints ==
    pc = "done" =>
        \A i \in 1..Len(league_table) :
            LET manager == league_table[i].manager
                phases == Get(manager_squads, manager)
            IN  /\ Cardinality(CurrentPhases) = 1
                /\ league_table[i].weekly = ExpectedRecent(manager)
                /\ \A k \in CurrentPhases \cap DOMAIN phases :
                      league_table[i].weekly - ScoreSum(phases[k], {current_gameweek})
                         = Get(result.phase_points, manager)[k]
                           - ScoreSum(phases[k], GameweeksOf(k))

\* gameweek 12: a manager with adjustments in both of its phases and a missing
\* score, and a manager without a Phase 2 roster
C10_Witness ==
    /\ pc = "done"
    /\ current_gameweek = 12
    /\ \E i, j \in 1..Len(league_table) :
          LET phases == Get(manager_squads, league_table[i].manager)
          IN  /\ DOMAIN phases = {1, 2}
              /\ AdjustmentSum(phases[1], 1, POINT_CORRECTIONS) # 0
              /\ AdjustmentSum(phases[2], 2, POINT_CORRECTIONS) # 0
              /\ \E p \in Range(phases[2]) : p \notin DOMAIN gameweek_data[12]
              /\ 2 \notin DOMAIN Get(manager_squads, league_table[j].manager)
              /\ league_table[j].weekly = 0
              /\ league_table[i].weekly # 0

\* the Phase 1 squad performance behind a row of the league table: the total
\* minus the difference the row shows
OriginalSquadPerformance(row) == row.total - row.diff_from_phase1

\* the roster of the earliest phase the manager has a roster for
FirstRoster(phases) ==
    phases[CHOOSE k \in DOMAIN phases : \A j \in DOMAIN phases : k <= j]

\* the Phase 1 roster, empty when the manager has none
Phase1Roster(phases) == IF 1 \in DOMAIN phases THEN phases[1] ELSE <<>>

\* the place of a manager in the order of manager_squads
InputOrder(manager) ==
    CHOOSE i \in 1..Len(manager_squads) : manager_squads[i].key = manager

\* C11 as stated: the original-squad performance is the score of the roster
\* of the manager's earliest phase over the gameweeks 1..current, and the
\* auxiliary ranking orders the managers by it
C11_FirstRosterPerformance ==
    pc = "done" =>
        \A i, j \in 1..Len(league_table) :
            /\ OriginalSquadPerformance(league_table[i])
                  = ScoreSum(FirstRoster(Get(manager_squads, league_table[i].manager)),
                             1..current_gameweek)
            /\ OriginalSquadPerformance(league_table[i])
                  > OriginalSquadPerformance(league_table[j])
                  => league_table[i].diff_rank < league_table[j].diff_rank

\* C11 amended: the original-squad performance is the score of the manager's
\* Phase 1 roster over the gameweeks 1..current (0 without a Phase 1 roster),
\* and the auxiliary ranking orders the managers by grand total minus that
\* score, highest first, equal differences in roster input order
C11_Phase1SquadPerformance ==
    pc = "done" =>
        /\ {league_table[i].diff_rank : i \in 1..Len(league_table)}
              = 1..Len(league_table)
        /\ \A i, j \in 1..Len(league_table) :
              /\ OriginalSquadPerformance(league_table[i])
                    = ScoreSum(Phase1Roster(Get(manager_squads, league_table[i].manager)),
                               1..current_gameweek)
              /\ league_table[i].diff_from_phase1 > league_table[j].diff_from_phase1
                    => league_table[i].diff_rank < league_table[j].diff_rank
              /\ (league_table[i].diff_from_phase1 = league_table[j].diff_from_phase1
                  /\ InputOrder(league_table[i].manager) < InputOrder(league_table[j].manager))
                    => league_table[i].diff_rank < league_table[j].diff_rank

\* a manager whose Phase 1 squad scored and who changed squad in Phase 2, next
\* to a manager without a Phase 1 roster whose players scored
C11_Witness ==
    /\ pc = "done"
    /\ current_gameweek >= 12
    /\ \E i, j \in 1..Len(league_table) :
          LET pi == Get(manager_squads, league_table[i].manager)
              pj == Get(manager_squads, league_table[j].manager)
          IN  /\ DOMAIN pi = {1, 2}
              /\ pi[1] # pi[2]
              /\ OriginalSquadPerformance(league_table[i]) > 0
              /\ league_table[i].diff_from_phase1 # 0
              /\ 1 \notin DOMAIN pj
              /\ league_table[j].total > 0
              /\ OriginalSquadPerformance(league_table[j]) = 0
              /\ league_table[i].diff_rank # league_table[i].position

\* the phases of a roster none of whose gameweeks has data
PhasesWithoutData(phases) ==
    {k \in DOMAIN phases : GameweeksOf(k) \cap DOMAIN gameweek_data = {}}

\* C17 as stated: a phase of a roster in which no gameweek has data has a
\* phase total, and the total is 0, whatever the adjustment list
C17_ZeroWithoutData ==
    Aggregated =>
        \A i \in 1..Len(manager_squads) :
            \A k \in PhasesWithoutData(manager_squads[i].value) :
                LET e == Get(result.manager_points, manager_squads[i].key)
                IN  k \in DOMAIN e.phase /\ e.phase[k] = 0

\* C17 amended: such a phase has a phase total, and the total is the sum of
\* the adjustments that match the roster in that phase, 0 when none matches
C17_AdjustmentsOnlyWithoutData ==
    Aggregated =>
        \A i \in 1..Len(manager_squads) :
            \A k \in PhasesWithoutData(manager_squads[i].value) :
                LET e == Get(result.manager_points, manager_squads[i].key)
                IN  /\ HasKey(result.phase_points, manager_squads[i].key)
                    /\ k \in DOMAIN Get(result.phase_points, manager_squads[i].key)
                    /\ k \in DOMAIN e.phase
                    /\ e.phase[k]
                          = AdjustmentSum(manager_squads[i].value[k], k, POINT_CORRECTIONS)

\* Phase 2 has not started: one manager's Phase 2 roster matches an
\* adjustment, another manager's does not
C17_Witness ==
    /\ pc = "save"
    /\ current_gameweek < 12
    /\ \E i, j \in 1..Len(manager_squads) :
          /\ 2 \in PhasesWithoutData(manager_squads[i].value)
          /\ 2 \in PhasesWithoutData(manager_squads[j].value)
          /\ Get(result.manager_points, manager_squads[i].key).phase[2] = -1
          /\ Get(result.manager_points, manager_squads[j].key).phase[2] = 0

\* the requests for the player directory and for the scores of a gameweek
Fetches == {e \in io : e.what \in {"bootstrap", "gameweek"}}

\* C16: when roster loading yields no manager, main halts: it asks for no
\* data, computes no scores, writes neither a snapshot nor a report, and it
\* has printed the message that names the missing roster
C16_HaltsWithoutRoster ==
    pc # "start" /\ manager_squads = EmptyDict =>
        /\ pc = "halted"
        /\ Fetches = {}
        /\ cache = NoCache
        /\ player_data = {} /\ gameweek_data = EmptyDict
        /\ result = EmptyResult /\ league_table = <<>>
        /\ \A e \in io : e.what \notin {"standings", "report"}
        /\ standings_file \in {AbsentFile, CorruptFile, File4}
        /\ (IF squads_file.exists THEN MsgNoManagers ELSE MsgNoSquadFiles) \in messages

\* a squad file with rows from which no manager entry parses has halted the
\* run
C16_Witness ==
    /\ pc = "halted"
    /\ squads_file.exists
    /\ Len(squads_file.rows) > 0
    /\ MsgNoManagers \in messages

\* C12: load_previous_standings returns the stored snapshot when the file
\* parses and the empty result when the file is absent or does not parse, and
\* a run that reads a file of another shape goes on as a run without a
\* snapshot file: it does not abort and reports every manager NEW
C12_MalformedSnapshotAsNone ==
    test_mode =>
        /\ pc = "bootstrap" /\ standings_file.kind \in {"absent", "corrupt"}
              => previous_standings = NoSnapshot
        /\ pc = "bootstrap" /\ standings_file.kind = "snapshot"
                            /\ Len(standings_file.standings) < 4
              => previous_standings = standings_file
        /\ previous_standings.kind # "snapshot"
              => /\ exception = NoException
                 /\ pc = "done" => AllNew

\* C14: no request for the player directory or for the scores of a gameweek,
\* live or from the cache, is made once calculate_manager_points has started
C14_NoFetchAfterIngestion ==
    \A e \in Fetches : e.stage = "ingestion"

\* the cache file a request would fall back to
CachedCopy(e) ==
    IF e.what = "bootstrap" THEN cache.bootstrap ELSE GameweekFile(cache, e.gameweek)

\* C15: a request whose live fetch fails is answered from the cached copy of
\* that request, whatever its age; the failure ends the run only when there
\* is no cached copy
C15_FailedFetchFallsBack ==
    \A e \in Fetches :
        e.stage = "ingestion" /\ e.source = "failed"
            => CachedCopy(e).state \notin {"fresh", "stale"}

\* the players of a roster that the player directory has
Known(player_ids) == SelectSeq(player_ids, LAMBDA p : p \in player_data)

\* C18: a rostered player that player_data does not have adds 0 to every
\* phase total and to the grand total, whatever the scores hold for its id
C18_UnknownPlayerAddsNothing ==
    Aggregated =>
        \A i \in 1..Len(manager_squads) :
            LET phases == manager_squads[i].value
                e == Get(result.manager_points, manager_squads[i].key)
                expected == [k \in DOMAIN phases |->
                                ScoreSum(Known(phases[k]), GameweeksOf(k))
                                + AdjustmentSum(phases[k], k, POINT_CORRECTIONS)]
            IN  /\ e.phase = expected
                /\ e.total = Sigma(expected)

\* C19: a run in which a processed gameweek is in no phase, or a roster names
\* a phase PHASES does not have, ends as a failure and writes no report
C19_UncoveredPeriodFails ==
    Written("rendering", "report") \in io =>
        /\ PhasesConfigured(manager_squads)
        /\ \A g \in DOMAIN gameweek_data : PhaseOf(g) # NoPhase

\* C20: the phases are pairwise disjoint and contiguous, and every gameweek
\* whose scores main ingests is in exactly one of them
C20_IngestedPeriodInOnePhase ==
    /\ \A k \in DOMAIN PHASES :
          /\ PHASES[k].start < PHASES[k].stop
          /\ k + 1 \in DOMAIN PHASES => PHASES[k + 1].start = PHASES[k].stop
    /\ \A g \in DOMAIN gameweek_data :
          Cardinality({k \in DOMAIN PHASES : InPhase(g, k)}) = 1

\* the rank of a manager: one more than the number of managers before it in
\* the order of descending total, ties in the order of manager_points
RankIn(manager_points, i) ==
    1 + Cardinality({j \in 1..Len(manager_points) :
            \/ manager_points[j].value.total > manager_points[i].value.total
            \/ /\ manager_points[j].value.total = manager_points[i].value.total
               /\ j < i})

\* the file holds one snapshot: the gameweek and exactly the managers of
\* manager_points, each with its rank
HoldsSnapshotOf(file, manager_points, cgw) ==
    LET loaded == load_previous_standings(file)
    IN  /\ file.kind = "snapshot"
        /\ loaded.gameweek = cgw
        /\ Len(loaded.standings) = Len(manager_points)
        /\ Keys(loaded.standings) = Keys(manager_points)
        /\ \A i \in 1..Len(manager_points) :
              Get(loaded.standings, manager_points[i].key) = RankIn(manager_points, i)

\* C13 as stated: after every save_current_standings call the store holds
\* the snapshot of the last successful save, so a successful call leaves its
\* own snapshot and a failed call leaves what load_previous_standings
\* returned before it
C13_HoldsLastSuccessfulSave ==
    [][SaveCurrentStandings =>
          IF env.disk = "ok"
          THEN HoldsSnapshotOf(standings_file', result.manager_points, current_gameweek)
          ELSE load_previous_standings(standings_file')
                   = load_previous_standings(standings_file)]_vars

\* C13 (amended): a save_current_standings call that succeeds leaves exactly
\* its own snapshot in the store, whatever the store held before (the
\* gameweek and, for exactly the managers of the saved scores, their ranks),
\* and load_previous_standings returns it; a call that fails leaves the file
\* as it was or leaves a file that does not parse, for which
\* load_previous_standings returns the empty result
C13_SuccessfulSaveOverwrites ==
    [][SaveCurrentStandings =>
          IF env.disk = "ok"
          THEN HoldsSnapshotOf(standings_file', result.manager_points, current_gameweek)
          ELSE \/ standings_file' = standings_file
               \/ /\ standings_file'.kind = "corrupt"
                  /\ load_previous_standings(standings_file') = NoSnapshot]_vars

\* a later run has just replaced the snapshot of B, A and C that an earlier
\* run stored (its gameweek 2 data is still in the cache) by that of D and A
C13_Witness ==
    /\ pc = "html"
    /\ Written("saving", "standings") \in io
    /\ current_gameweek = 1
    /\ 2 \in DOMAIN cache.gameweek
    /\ Keys(result.manager_points) = {"D", "A"}
    /\ standings_file.kind = "snapshot"
    /\ Keys(standings_file.standings) = {"D", "A"}

\* the rows of a squad file without its malformed entries
WellFormed(rows) == SelectSeq(rows, LAMBDA row : row.valid)

\* the rosters are those of the file without its malformed entries
StoredAsIfWellFormed ==
    manager_squads = ParseSquads([squads_file EXCEPT !.rows = WellFormed(@)])

\* C21: the malformed entries of the roster file (a manager row with an id
\* that is no integer, an invalid phase header) are skipped, each kind with
\* its diagnostic; the well-formed rows are stored as if the malformed ones
\* were not in the file, and the run goes on when a roster was stored
C21_MalformedEntriesSkipped ==
    pc # "start" /\ squads_file.exists =>
        /\ StoredAsIfWellFormed
        /\ (\E i \in 1..Len(squads_file.rows) :
                squads_file.rows[i].kind = "phase" /\ ~squads_file.rows[i].valid)
              => MsgInvalidPhaseRow \in messages
        /\ (\E i \in 1..Len(squads_file.rows) :
                squads_file.rows[i].kind = "manager" /\ ~squads_file.rows[i].valid)
              => MsgInvalidPlayerIds \in messages
        /\ (manager_squads # EmptyDict => pc # "halted")

\* the last row before row i that is a phase header (valid or not), and the
\* last that is a valid one; 0 when there is none
NearestHeader(rows, i) ==
    LET before == {j \in 1..(i - 1) : rows[j].kind = "phase"}
    IN  IF before = {} THEN 0 ELSE CHOOSE j \in before : \A h \in before : h <= j

NearestValidHeader(rows, i) ==
    LET before == {j \in 1..(i - 1) : rows[j].kind = "phase" /\ rows[j].valid}
    IN  IF before = {} THEN 0 ELSE CHOOSE j \in before : \A h \in before : h <= j

\* the manager rows of m that can be stored
RosterRows(rows, m) ==
    {i \in 1..Len(rows) : /\ rows[i].kind = "manager" /\ rows[i].valid
                          /\ rows[i].name = m /\ Len(rows[i].ids) > 0}

\* those whose nearest preceding phase-header row is a valid header for phase k
RowsUnderHeader(rows, m, k) ==
    {i \in RosterRows(rows, m) :
        LET j == NearestHeader(rows, i)
        IN  j # 0 /\ rows[j].valid /\ rows[j].phase = k}

\* those whose nearest preceding valid phase header is one for phase k
RowsUnderValidHeader(rows, m, k) ==
    {i \in RosterRows(rows, m) :
        LET j == NearestValidHeader(rows, i)
        IN  j # 0 /\ rows[j].phase = k}

Stored(m, k) == HasKey(manager_squads, m) /\ k \in DOMAIN Get(manager_squads, m)

ParsedCsv == pc # "start" /\ squads_file.exists /\ squads_file.filename = "Squads.csv"

\* C29 as stated: every roster stored under phase k for a manager comes from
\* a manager row whose nearest preceding phase-header row is a valid header
\* for phase k
C29_RosterUnderNearestHeader ==
    ParsedCsv =>
        \A m \in {"A", "B", "C", "D"}, k \in 1..6 :
            Stored(m, k) =>
                \E i \in RowsUnderHeader(squads_file.rows, m, k) :
                    squads_file.rows[i].ids = Get(manager_squads, m)[k]

\* C29 (amended): a manager has a roster under phase k exactly when the file
\* has a storable row of that manager whose nearest preceding valid phase
\* header is one for phase k, and the roster is that of the last such row;
\* invalid headers are passed over, rows before the first valid header are
\* ignored
C29_RosterUnderNearestValidHeader ==
    ParsedCsv =>
        \A m \in {"A", "B", "C", "D"}, k \in 1..6 :
            LET from == RowsUnderValidHeader(squads_file.rows, m, k)
            IN  IF from = {}
                THEN ~Stored(m, k)
                ELSE /\ Stored(m, k)
                     /\ Get(manager_squads, m)[k]
                          = squads_file.rows[CHOOSE i \in from : \A j \in from : j <= i].ids

\* a manager row that follows an invalid header was stored under the phase
\* of the valid header before it, and a manager row before the first valid
\* header was ignored
C29_Witness ==
    /\ ParsedCsv
    /\ \E i \in 1..Len(squads_file.rows) :
          /\ squads_file.rows[i] = ManagerRow("A", <<1>>)
          /\ NearestHeader(squads_file.rows, i) # 0
          /\ ~squads_file.rows[NearestHeader(squads_file.rows, i)].valid
          /\ NearestValidHeader(squads_file.rows, i) # 0
          /\ squads_file.rows[NearestValidHeader(squads_file.rows, i)].phase = 2
    /\ squads_file.rows[1] = ManagerRow("B", <<2>>)
    /\ ~HasKey(manager_squads, "B")
    /\ Stored("A", 2) /\ Get(manager_squads, "A")[2] = <<1>>

\* a roster without the repetitions of its ids
RECURSIVE WithoutDuplicates(_)
WithoutDuplicates(player_ids) ==
    IF player_ids = <<>>
    THEN <<>>
    ELSE LET front == WithoutDuplicates(SubSeq(player_ids, 1, Len(player_ids) - 1))
             last == player_ids[Len(player_ids)]
         IN  IF Contains(front, last) THEN front ELSE Append(front, last)

\* the rosters with every phase roster reduced to its set of ids
AsSets(squads) ==
    [i \in 1..Len(squads) |->
        [key |-> squads[i].key,
         value |-> [k \in DOMAIN squads[i].value |-> WithoutDuplicates(squads[i].value[k])]]]

\* C30: a roster that lists a player more than once gives its manager the
\* phase totals, the grand total and the most-recent-gameweek points of the
\* roster with the repetitions removed
C30_RosterBehavesAsSet ==
    Aggregated =>
        LET sets == AsSets(manager_squads)
            expected == calculate_manager_points(sets, gameweek_data,
                                                 current_gameweek, POINT_CORRECTIONS)
        IN  /\ result.manager_points = expected.manager_points
            /\ result.phase_points = expected.phase_points
            /\ \A i \in 1..Len(manager_squads) :
                  calculate_recent_gameweek_points(manager_squads[i].key, result.phase_points,
                      manager_squads, gameweek_data, current_gameweek, POINT_CORRECTIONS)
                  = calculate_recent_gameweek_points(manager_squads[i].key, result.phase_points,
                      sets, gameweek_data, current_gameweek, POINT_CORRECTIONS)

\* C22: in every run the Snapshot Store is read at most once and written at
\* most once, and no write precedes the read: when main reads the store the
\* run has neither read nor written it, and when main writes it the run has
\* not written it (with or without success)
C22_StoreReadOnceWrittenOnce ==
    [][/\ LoadStandings => \A e \in io : e.what # "standings"
       /\ SaveCurrentStandings =>
             /\ Written("saving", "standings") \notin io
             /\ MsgStandingsWriteFailed \notin messages]_vars

\* a --test-movement run has read the store and then written it
C22_Witness ==
    /\ test_mode /\ pc = "done"
    /\ Loaded("loading", "standings") \in io
    /\ Written("saving", "standings") \in io

\* the primary columns of the league table
Primary(table) ==
    [i \in 1..Len(table) |->
        [manager |-> table[i].manager, position |-> table[i].position,
         total |-> table[i].total, change |-> table[i].change]]

\* other scores for the auxiliary ranking to work on: none at all, and
\* MaxPoints for every player in every gameweek
OtherScores ==
    {EmptyDict, [g \in DOMAIN gameweek_data |-> [p \in Players |-> MaxPoints]]}

\* C23: the auxiliary ranks are a bijection onto 1..N, and position, grand
\* total and movement state of every manager are those of the totals and the
\* baseline alone: the table computed from the same totals with other
\* auxiliary values has the same primary columns
C23_AuxiliaryLeavesPrimary ==
    pc = "done" =>
        /\ \A i, j \in 1..Len(league_table) :
              i # j => league_table[i].diff_rank # league_table[j].diff_rank
        /\ \A i \in 1..Len(league_table) : league_table[i].diff_rank \in 1..Len(league_table)
        /\ \A i \in 1..Len(result.manager_points) :
              LET row == league_table[RankIn(result.manager_points, i)]
              IN  /\ row.manager = result.manager_points[i].key
                  /\ row.position = RankIn(result.manager_points, i)
                  /\ row.total = result.manager_points[i].value.total
                  /\ row.change = PositionChange(row.manager, row.position,
                                                 previous_standings.standings)
        /\ \A gwd \in OtherScores :
              Primary(generate_league_table(result.manager_points, result.phase_points,
                          previous_standings, manager_squads, gwd,
                          current_gameweek, POINT_CORRECTIONS))
                = Primary(league_table)

\* the auxiliary ranking orders the managers otherwise than the totals do
C23_Witness ==
    /\ pc = "done"
    /\ \E i \in 1..Len(league_table) : league_table[i].diff_rank # league_table[i].position
    /\ \E i \in 1..Len(league_table) : league_table[i].change \in {"UP", "DOWN"}

\* the players with a roster place in the phase of gameweek gw and no entry
\* in the data of gw
MissingIn(gw) ==
    {p \in Players :
        /\ gw \in DOMAIN gameweek_data /\ p \notin DOMAIN gameweek_data[gw]
        /\ \E i \in 1..Len(manager_squads) : \E k \in DOMAIN manager_squads[i].value :
              InPhase(gw, k) /\ Contains(manager_squads[i].value[k], p)}

\* C24: after calculate_manager_points and calculate_position_changes (with
\* its two calculate_points_up_to_gameweek calls) the missing entries of the
\* current gameweek are the only ones reported
C24_MissingReportedForCurrentOnly ==
    pc \in {"positions", "save", "html"} =>
        \A p \in Players, gw \in 1..(current_gameweek + 1) :
            MsgNoPoints(p, gw) \in messages <=> (gw = current_gameweek /\ p \in MissingIn(gw))

\* both aggregation paths have run over data in which an earlier gameweek and
\* the current one miss a rostered player
C24_Witness ==
    /\ pc = "save" /\ ~test_mode
    /\ current_gameweek > 1
    /\ \E gw \in 1..(current_gameweek - 1) : MissingIn(gw) # {}
    /\ \E p \in MissingIn(current_gameweek) : MsgNoPoints(p, current_gameweek) \in messages

C26_PathsAgreeAtCurrent ==
    pc \in {"save", "html", "done"} =>
        LET up_to == calculate_points_up_to_gameweek(current_gameweek, manager_squads,
                                                     gameweek_data, POINT_CORRECTIONS)
        IN  /\ Len(up_to) = Len(result.manager_points)
            /\ \A i \in 1..Len(up_to) :
                  /\ up_to[i].key = result.manager_points[i].key
                  /\ up_to[i].value.phase = result.manager_points[i].value.phase
                  /\ up_to[i].value.total = result.manager_points[i].value.total
            /\ \A i \in 1..Len(result.manager_points) :
                  LET manager == result.manager_points[i].key
                      rank == RankIn(result.manager_points, i)
                  IN  /\ Compared => Get(current_standings.standings, manager) = rank
                      /\ pc = "done" => Get(TablePositions, manager) = rank
                      /\ Written("saving", "standings") \in io
                            => Get(standings_file.standings, manager) = rank

\* a normal run after gameweek 1 in which the totals differ and scores and
\* an adjustment count has compared, saved and rendered
C26_Witness ==
    /\ pc = "done" /\ Compared
    /\ Written("saving", "standings") \in io
    /\ POINT_CORRECTIONS # <<>>
    /\ \E i, j \in 1..Len(result.manager_points) :
          result.manager_points[i].value.total > result.manager_points[j].value.total
    /\ \E g \in DOMAIN gameweek_data : DOMAIN gameweek_data[g] # {}

\* C27: in a normal run after gameweek 1 the recomputed baseline and the
\* current standings hold exactly the managers of the rosters, and the
\* league table reports no manager NEW
C27_NoNewManagerAfterFirstGameweek ==
    Compared =>
        /\ Keys(previous_standings.standings) = Keys(manager_squads)
        /\ Keys(current_standings.standings) = Keys(manager_squads)
        /\ Len(previous_standings.standings) = Len(manager_squads)
        /\ Len(current_standings.standings) = Len(manager_squads)
        /\ pc = "done" =>
              /\ Len(league_table) = Len(manager_squads)
              /\ \A i \in 1..Len(league_table) : league_table[i].change # "NEW"

\* the first gameweek of Phase 2 with a manager who has a roster for Phase 2
\* only, and a manager who moved
C27_Witness ==
    /\ Compared /\ pc = "done"
    /\ current_gameweek = PHASES[2].start
    /\ \E i \in 1..Len(manager_squads) : DOMAIN manager_squads[i].value = {2}
    /\ \E i \in 1..Len(league_table) : league_table[i].change \in {"UP", "DOWN"}

\* the grand total of a manager in calculate_points_up_to_gameweek(g)
TotalUpTo(g, manager) ==
    Get(calculate_points_up_to_gameweek(g, manager_squads, gameweek_data,
                                        POINT_CORRECTIONS), manager).total

\* C28: for every manager and every ingested gameweek g >= 2 the grand total
\* up to g exceeds the grand total up to g - 1 by the scores of gameweek g of
\* the roster the manager has for the phase containing g (by 0 without such
\* a roster); adjustments and the scores of other gameweeks cancel
C28_GameweekDifference ==
    pc = "save" =>
        \A g \in DOMAIN gameweek_data \ {1} :
            LET now == UpTo(g)
                before == UpTo(g - 1)
            IN  \A i \in 1..Len(manager_squads) :
                    LET phases == manager_squads[i].value
                    IN  /\ now[i].key = manager_squads[i].key
                        /\ before[i].key = manager_squads[i].key
                        /\ now[i].value.total - before[i].value.total
                             = IF PhaseOf(g) \in DOMAIN phases
                               THEN ScoreSum(phases[PhaseOf(g)], {g})
                               ELSE 0

\* the first gameweek of Phase 2 scored for a manager whose Phase 2 roster
\* carries an adjustment and for none of a manager without a Phase 2 roster
C28_Witness ==
    /\ pc = "save"
    /\ current_gameweek = PHASES[2].start
    /\ \E c \in 1..Len(POINT_CORRECTIONS) : POINT_CORRECTIONS[c][2] = 2
    /\ \E i, j \in 1..Len(manager_squads) :
          /\ 2 \in DOMAIN manager_squads[i].value
          /\ Contains(manager_squads[i].value[2], 1)
          /\ TotalUpTo(current_gameweek, manager_squads[i].key)
                > TotalUpTo(current_gameweek - 1, manager_squads[i].key)
          /\ 2 \notin DOMAIN manager_squads[j].value
          /\ TotalUpTo(current_gameweek, manager_squads[j].key)
                = TotalUpTo(current_gameweek - 1, manager_squads[j].key)
          /\ TotalUpTo(current_gameweek, manager_squads[j].key) > 0

====
